---- MODULE Spec2Model ----
(***************************************************************************)
(* UrbanSetu: the complaint submission wizard (ReportComplaint.js), the    *)
(* complaint repository (complaintService.js), the session (AuthContext,   *)
(* the routes of App) and the two dashboards, as a state machine.          *)
(*                                                                         *)
(* Conventions.                                                            *)
(*  - A JavaScript value that may be null/undefined/'' next to a number or *)
(*    a record is an option: None is <<>>, Some(v) is <<v>>.               *)
(*  - A JavaScript string that may be '' or absent is a TLA+ string, ""    *)
(*    standing for both (both are falsy in every test the code makes).     *)
(*  - Coordinates are fixed-point integers in units of 10^-7 degree, so    *)
(*    that toFixed(6) has a digit to round away.                           *)
(*  - Probabilities are integers in units of 1/100.                        *)
(***************************************************************************)
EXTENDS Integers, Sequences, FiniteSets, TLC

None == <<>>
Some(v) == <<v>>
IsSome(o) == o # <<>>
Val(o) == o[1]

-----------------------------------------------------------------------------
(* Bounds of the exploration *)

\* user gestures (button presses, selections, typed fields, map clicks) in one wizard session
MaxGestures == 5
\* user gestures (sign in, sign out, navigation, reload, ...) in one application session
MaxSessionSteps == 4
\* half days that pass in one application session
MaxHalfDays == 3
\* repository calls in the repository specification
MaxCalls == 4
\* changes of the status filter and of the search text on the admin dashboard
MaxFilterChanges == 2

-----------------------------------------------------------------------------
(* Module constants of ReportComplaint.js *)

AI_CLASSES == <<"Pothole", "Garbage", "Sewage", "StreetLight", "FallenTree">>

\* 0.6, in units of 1/100
CONFIDENCE_THRESHOLD == 60

DEPARTMENT_MAPPING ==
  [c \in {AI_CLASSES[i] : i \in 1..Len(AI_CLASSES)} |->
     CASE c = "Pothole"     -> "Road Authority"
       [] c = "Garbage"     -> "Sanitation Department"
       [] c = "Sewage"      -> "Water & Sewage Board"
       [] c = "StreetLight" -> "Electrical Department"
       [] c = "FallenTree"  -> "Parks & Horticulture"]

\* Each template is <<text before '[ADDRESS]', text after it>>.
DESCRIPTION_TEMPLATES ==
  [c \in {AI_CLASSES[i] : i \in 1..Len(AI_CLASSES)} |->
     CASE c = "Pothole"     -> <<"I have noticed a pothole at ", ". It is creating difficulty for pedestrians and vehicles.">>
       [] c = "Garbage"     -> <<"There is accumulated garbage at ", ". It needs immediate attention for cleanliness.">>
       [] c = "Sewage"      -> <<"There is sewage overflow/blockage at ", ". It is causing unhygienic conditions.">>
       [] c = "StreetLight" -> <<"Street light is not working at ", ". It is causing safety concerns during night time.">>
       [] c = "FallenTree"  -> <<"A tree has fallen at ", ". It is blocking the path and needs removal.">>]

\* template.replace('[ADDRESS]', address): the first occurrence is replaced.
ReplaceAddress(template, address) == template[1] \o address \o template[2]

-----------------------------------------------------------------------------
(* Number.prototype.toFixed(6) on a fixed-point coordinate *)

Digit(d) == <<"0", "1", "2", "3", "4", "5", "6", "7", "8", "9">>[d + 1]

RECURSIVE IntToStr(_)
IntToStr(n) == IF n < 10 THEN Digit(n) ELSE IntToStr(n \div 10) \o Digit(n % 10)

RECURSIVE PadDigits(_, _)
PadDigits(n, width) ==
  IF width = 0 THEN "" ELSE PadDigits(n \div 10, width - 1) \o Digit(n % 10)

\* x is in units of 10^-7; the result has exactly six digits after the point,
\* rounded to nearest (ties to the larger magnitude), sign kept.
ToFixed6(x) ==
  LET m == IF x < 0 THEN 0 - x ELSE x
      n == (m + 5) \div 10
  IN  (IF x < 0 THEN "-" ELSE "") \o IntToStr(n \div 1000000) \o "." \o PadDigits(n % 1000000, 6)

-----------------------------------------------------------------------------
(* reverseGeocode *)

RECURSIVE Join(_)
\* Array.prototype.join(', ')
Join(parts) ==
  IF parts = <<>> THEN ""
  ELSE IF Len(parts) = 1 THEN parts[1]
  ELSE parts[1] \o ", " \o Join(Tail(parts))

Includes(parts, s) == \E i \in 1..Len(parts) : parts[i] = s

\* a || b on strings
Or(a, b) == IF a # "" THEN a ELSE b

\* if (v) parts.push(v)
Push(parts, v) == IF v # "" THEN Append(parts, v) ELSE parts

\* if (v && !parts.includes(v)) parts.push(v)
PushNew(parts, v) == IF v # "" /\ ~Includes(parts, v) THEN Append(parts, v) ELSE parts

RECURSIVE PushAll(_, _)
PushAll(parts, vs) == IF vs = <<>> THEN parts ELSE PushAll(Push(parts, vs[1]), Tail(vs))

AddrFields == {"house_number", "road", "street", "suburb", "neighbourhood", "quarter",
               "hamlet", "village", "city_district", "district", "borough", "city",
               "town", "municipality", "county", "state", "province", "postcode"}

NoAddr == [f \in AddrFields |-> ""]

\* The 'nominatim' branch; the result is None when the loop goes on to the next service.
NominatimResult(data) ==
  IF ~data.hasAddress THEN None
  ELSE
    LET addr == data.address
        p1 == PushAll(<<>>, <<addr.house_number, Or(addr.road, addr.street),
                              addr.suburb, addr.neighbourhood, addr.quarter, addr.hamlet,
                              addr.village, addr.city_district, addr.district, addr.borough>>)
        p2 == PushNew(PushNew(PushNew(p1, addr.city), addr.town), addr.municipality)
        addressParts == PushAll(p2, <<addr.county, Or(addr.state, addr.province), addr.postcode>>)
        fullAddress == Join(addressParts)
        f1 == PushAll(<<>>, <<Or(addr.road, addr.street), Or(addr.suburb, addr.neighbourhood)>>)
        f2 == PushNew(PushNew(f1, addr.city), addr.state)
        fallbackParts == Push(f2, addr.postcode)
    IN  IF Len(fullAddress) > 15 THEN Some(fullAddress)
        ELSE IF data.display_name # "" /\ Len(data.display_name) > Len(fullAddress)
               THEN Some(data.display_name)
        ELSE IF Len(fullAddress) < 10 /\ Len(fallbackParts) > 0 THEN Some(Join(fallbackParts))
        ELSE None

\* The 'bigdatacloud' branch.
BigDataCloudResult(data) ==
  LET address == Join(PushAll(<<>>, <<data.locality, data.principalSubdivision, data.countryName>>))
  IN  IF data.hasAdministrative /\ Len(address) > 15 THEN Some(address)
      ELSE IF (data.locality # "" \/ data.principalSubdivision # "" \/ data.countryName # "")
              /\ Len(address) > 15 THEN Some(address)
      ELSE None

\* The 'nominatim_alt' branch.
NominatimAltResult(data) ==
  LET addr == data.address
      addressParts == PushAll(<<>>, <<addr.house_number, Or(addr.road, addr.street),
                                      Or(addr.suburb, addr.neighbourhood),
                                      Or(addr.city_district, addr.district),
                                      Or(addr.city, addr.town), addr.state, addr.postcode>>)
      fullAddress == Join(addressParts)
  IN  IF data.hasAddress /\ Len(fullAddress) > 15 THEN Some(fullAddress)
      ELSE IF data.display_name # "" THEN Some(data.display_name)
      ELSE None

\* One iteration of the loop over services: a throwing fetch/json is caught and
\* the loop continues.
ServiceResult(type, resp) ==
  IF resp.throws THEN None
  ELSE CASE type = "nominatim"     -> NominatimResult(resp.data)
         [] type = "bigdatacloud"  -> BigDataCloudResult(resp.data)
         [] type = "nominatim_alt" -> NominatimAltResult(resp.data)

GeocodeServices == <<"nominatim", "bigdatacloud", "nominatim_alt">>

\* variant: the bare coordinate pair, as the outer catch block returns it
GpsFallback_Bare(latitude, longitude) == ToFixed6(latitude) \o ", " \o ToFixed6(longitude)

\* the string returned when the loop over services ends without a return
GpsFallback(latitude, longitude) ==
  "GPS Location: " \o ToFixed6(latitude) \o ", " \o ToFixed6(longitude)

RECURSIVE GeocodeFrom(_, _, _, _)
GeocodeFrom(i, latitude, longitude, resps) ==
  IF i > Len(GeocodeServices) THEN GpsFallback(latitude, longitude)
  ELSE LET r == ServiceResult(GeocodeServices[i], resps[i])
       IN  IF IsSome(r) THEN Val(r) ELSE GeocodeFrom(i + 1, latitude, longitude, resps)

\* reverseGeocode(latitude, longitude), given what each provider answers.
reverseGeocode(latitude, longitude, resps) == GeocodeFrom(1, latitude, longitude, resps)

-----------------------------------------------------------------------------
(* Inputs the model draws from *)

\* <<latitude, longitude>> in units of 10^-7 degree; the seventh decimal is
\* never 5, so rounding to six decimals has no tie.
\* where the device reports to be
DevicePositions == {<<268467004, 809462007>>}
\* where the user clicks on the map or drops the marker
MapPositions == {<<0 - 6, 1234564>>}
Coordinates == DevicePositions \cup MapPositions

\* What the providers may answer.  throws: fetch rejects or the body is not JSON.
\* (the data of a throwing call is never read)
NominatimEmpty == [hasAddress |-> FALSE, address |-> NoAddr, display_name |-> ""]
BigDataCloudEmpty ==
  [hasAdministrative |-> FALSE, locality |-> "", principalSubdivision |-> "", countryName |-> ""]
Throws(d) == [throws |-> TRUE, data |-> d]
Answer(d) == [throws |-> FALSE, data |-> d]

NominatimFull ==
  Answer([hasAddress |-> TRUE,
          address |-> [NoAddr EXCEPT !.road = "MG Road", !.suburb = "Hazratganj",
                                     !.city = "Lucknow", !.postcode = "226001"],
          display_name |-> "MG Road, Hazratganj, Lucknow, Uttar Pradesh, 226001, India"])

\* an address of 10..15 characters and no display_name: the loop goes on
NominatimMid ==
  Answer([hasAddress |-> TRUE, address |-> [NoAddr EXCEPT !.county = "Lucknow Dist"],
          display_name |-> ""])

\* 'Goa, India' has 10 characters: the loop goes on
BigDataCloudShort ==
  Answer([hasAdministrative |-> TRUE, locality |-> "Goa", principalSubdivision |-> "",
          countryName |-> "India"])

\* <<nominatim, bigdatacloud, nominatim_alt>> answers of one reverseGeocode call
GeocodeAnswers ==
  { <<Throws(NominatimEmpty), Throws(BigDataCloudEmpty), Throws(NominatimEmpty)>>,
    \* {"error": "Unable to geocode"} from every provider
    <<Answer(NominatimEmpty), Answer(BigDataCloudEmpty), Answer(NominatimEmpty)>>,
    <<Throws(NominatimEmpty), Answer(BigDataCloudEmpty), Throws(NominatimEmpty)>>,
    <<NominatimMid, BigDataCloudShort, Throws(NominatimEmpty)>>,
    <<NominatimFull, Throws(BigDataCloudEmpty), Throws(NominatimEmpty)>> }

\* A provider call that fails: it throws, or its body carries no address data.
ProviderFailed(resp) ==
  resp.throws \/ resp.data = NominatimEmpty \/ resp.data = BigDataCloudEmpty

\* Images the user may capture, and what model.predict returns for each:
\* a list of {className, probability}, probabilities in units of 1/100.
Images == 1..2

Prediction(image) ==
  LET top == CASE image = 1 -> <<1, 61>>      \* Pothole, just above the threshold
               [] OTHER     -> <<2, 60>>      \* Garbage, exactly at the threshold
      rest == (100 - top[2]) \div 4
  IN  [i \in 1..Len(AI_CLASSES) |->
         [className |-> AI_CLASSES[i],
          probability |-> IF i = top[1] THEN top[2] ELSE rest]]

TypedDescriptions == {"", "pothole near gate"}
TypedAddresses == {"", "12 MG Road, Lucknow"}
\* options of the priority and category selects the user picks in the exploration
Priorities == {"urgent"}
CategoryOptions == {"", "Pothole", "Garbage"}

\* useAuth().user.id of the session
SessionUserId == "citizen-1"

-----------------------------------------------------------------------------
(* AuthContext: the user record and its copy in localStorage *)

\* the keys a user record may carry; the members of the text are written in
\* this order (JSON.parse does not depend on the order)
UserKeys == <<"id", "email", "name", "phone", "password", "userType", "address", "avatar",
              "createdAt">>

\* JSON.stringify(user): the text, as the sequence of <<key, value>> members
Stringify(u) ==
  LET Members[i \in 0..Len(UserKeys)] ==
        IF i = 0 THEN <<>>
        ELSE IF UserKeys[i] \in DOMAIN u
               THEN Append(Members[i - 1], <<UserKeys[i], u[UserKeys[i]]>>)
               ELSE Members[i - 1]
  IN  Members[Len(UserKeys)]

\* a stored text that is not JSON
CorruptText == <<<<"{">>>>

\* JSON.parse(text): the object, or None when parsing throws
Parse(text) ==
  IF \E i \in 1..Len(text) : Len(text[i]) # 2 THEN None
  ELSE Some([k \in {text[i][1] : i \in 1..Len(text)} |->
               text[CHOOSE i \in 1..Len(text) : text[i][1] = k][2]])

\* generateUUID(): one of the values Math.random may give
UUIDs == {"3f2a-4e1b", "9c0d-4a7e"}

\* an id of the old format (a timestamp)
OldFormatId == "1700000000000"

\* id.includes('-')
IncludesDash(id) == id \in UUIDs \/ id = SessionUserId

\* `https://ui-avatars.com/api/?name=${name}&background=48bb78&color=fff`
Avatar(name) == "https://ui-avatars.com/api/?name=" \o name \o "&background=48bb78&color=fff"

\* mockUser of login(email, password, userType); email is <<local part, domain>>
LoginUser(id, email, userType, t) ==
  [id |-> id, email |-> email[1] \o "@" \o email[2], name |-> email[1],
   userType |-> userType, avatar |-> Avatar(email[1]), createdAt |-> IntToStr(t)]

\* mockUser of register(userData): {id, ...userData, avatar, createdAt}
RegisterUser(id, userData, t) ==
  [k \in DOMAIN userData \cup {"id", "avatar", "createdAt"} |->
     CASE k = "avatar" -> Avatar(userData.name)
       [] k = "createdAt" -> IntToStr(t)
       [] k \in DOMAIN userData -> userData[k]
       [] OTHER -> id]

\* {...user, ...updates}
Merge(u, updates) ==
  [k \in DOMAIN u \cup DOMAIN updates |-> IF k \in DOMAIN updates THEN updates[k] ELSE u[k]]

UserTypes == {"citizen", "admin"}
Emails == {<<"asha", "example.in">>}

\* what RegisterPage passes to register
RegisterData ==
  {[name |-> "Asha K", email |-> "asha@example.in", phone |-> "9876543210",
    password |-> "secret12", userType |-> ut] :
     ut \in UserTypes}

\* what ProfilePage passes to updateProfile: its formData
ProfileUpdates(u) ==
  {[name |-> "Asha Kumari", email |-> u.email,
    phone |-> IF "phone" \in DOMAIN u THEN u.phone ELSE "",
    address |-> "Hazratganj"]}

\* the citizen whose session the wizard runs in
WizardUser == LoginUser(SessionUserId, <<"asha", "example.in">>, "citizen", 0)

-----------------------------------------------------------------------------
(* State *)

VARIABLES
  route,              \* "report": the wizard is mounted; "citizen": navigate('/citizen') after a submit
  step,               \* useState(1)
  capturedImage,      \* 0 for null, else the image
  model,              \* "loading" (modelLoading), "loaded", or "none" (both loads failed)
  aiPrediction,       \* None or Some([className, probability])
  currentLocation,    \* None or Some([latitude, longitude])
  currentAddress,     \* "" for null
  isLoadingLocation,
  locationLoaded,
  form,               \* the react-hook-form values
  errors,             \* formState.errors: the names of the fields with a validation error
  geoSupported,       \* navigator.geolocation is present
  gpsRequest,         \* a getCurrentPosition request is in flight
  geocodeCalls,       \* reverseGeocode calls in flight, with the continuation that awaits them
  classifyCalls,      \* processImageWithAI calls in flight, with what their closure captured
  submits,            \* onSubmit calls in flight
  toasts,             \* the toasts shown, as <<submit, kind>>
  justSubmitted,      \* localStorage 'complaintSubmitted'
  complaints,         \* the rows of the complaints table, in insertion order
  now,                \* the clock
  gestures,           \* how many gestures the user has made since the initial state
  manualCategory,     \* history: the user has selected a category by hand
  createLog,          \* history: the submitComplaint calls issued, as [submit, data]
  lastUpdate,         \* history: the last updateComplaintStatus call
  lastRead,           \* history: the last read of the table and what it returned
  complaintSubmittedTime, \* localStorage 'complaintSubmittedTime': None or Some(time)
  user,               \* AuthProvider: useState(null)
  loading,            \* AuthProvider: useState(true)
  savedUser,          \* localStorage 'urbansetu-user': None or Some(text)
  authCalls,          \* login and register calls in flight
  path,               \* the location the router renders
  lastRedirect,       \* history: the last <Navigate> a ProtectedRoute rendered
  mounts,             \* history: how many times AuthProvider has been mounted
  showProgressBar,    \* CitizenDashboard: useState(false)
  clearTimer,         \* CitizenDashboard: the setTimeout that clears the flag is pending
  dashboardLoad,      \* CitizenDashboard: loadComplaints has run since the dashboard was mounted
  selectedFilter,     \* AdminDashboard: useState('all')
  searchQuery,        \* AdminDashboard: useState(''), as a sequence of characters
  dashboardComplaints, \* AdminDashboard: useState([]), the state named complaints
  stats,              \* AdminDashboard: the counters
  loadCalls           \* AdminDashboard: loadData calls in flight

wizardVars == <<route, step, capturedImage, model, aiPrediction, currentLocation, currentAddress,
                isLoadingLocation, locationLoaded, form, errors, geoSupported, gpsRequest,
                geocodeCalls, classifyCalls, submits, toasts, justSubmitted, manualCategory,
                createLog>>

vars == <<route, step, capturedImage, model, aiPrediction, currentLocation, currentAddress,
          isLoadingLocation, locationLoaded, form, errors, geoSupported, gpsRequest,
          geocodeCalls, classifyCalls, submits, toasts, justSubmitted, complaints, now,
          gestures, manualCategory, createLog, lastUpdate, lastRead,
          complaintSubmittedTime, user, loading, savedUser, authCalls, path, lastRedirect,
          mounts, showProgressBar, clearTimer, dashboardLoad,
          selectedFilter, searchQuery, dashboardComplaints, stats, loadCalls>>

authVars == <<user, loading, savedUser, authCalls, path, lastRedirect, mounts>>
dashVars == <<showProgressBar, clearTimer, dashboardLoad>>
adminVars == <<selectedFilter, searchQuery, dashboardComplaints, stats, loadCalls>>

\* the state of the wizard and the histories of the repository, which the
\* session and the admin dashboard leave alone
sessionFrame == <<route, step, capturedImage, model, aiPrediction, currentLocation,
                  currentAddress, isLoadingLocation, locationLoaded, form, errors,
                  geoSupported, gpsRequest, geocodeCalls, classifyCalls, submits,
                  manualCategory, createLog, lastUpdate, lastRead>>

\* AdminDashboard is not mounted: its state has the useState initial values
AdminUnmounted ==
  /\ selectedFilter = "all"
  /\ searchQuery = <<>>
  /\ dashboardComplaints = <<>>
  /\ stats = [total |-> 0, pending |-> 0, inProgress |-> 0, resolved |-> 0, today |-> 0]
  /\ loadCalls = {}

\* useForm defaultValues
DefaultValues ==
  [category |-> "", description |-> "", priority |-> "medium", department |-> "",
   address |-> "", latitude |-> None, longitude |-> None]

\* The state after the first render and its mount effects: loadModel() is
\* running and getCurrentLocation() has been called.
Init ==
  /\ route = "report"
  /\ step = 1
  /\ capturedImage = 0
  /\ model = "loading"
  /\ aiPrediction = None
  /\ currentLocation = None
  /\ currentAddress = ""
  /\ geoSupported \in BOOLEAN
  /\ gpsRequest = geoSupported
  /\ isLoadingLocation = geoSupported
  /\ locationLoaded = FALSE
  /\ form = DefaultValues
  /\ errors = {}
  /\ geocodeCalls = {}
  /\ classifyCalls = {}
  /\ submits = {}
  /\ toasts = {}
  /\ justSubmitted = FALSE
  /\ complaints = <<>>
  /\ now = 1
  /\ gestures = 0
  /\ manualCategory = FALSE
  /\ createLog = <<>>
  /\ lastUpdate = None
  /\ lastRead = None
  /\ complaintSubmittedTime = None
  /\ user = Some(WizardUser)
  /\ loading = FALSE
  /\ savedUser = Some(Stringify(WizardUser))
  /\ authCalls = {}
  /\ path = "/citizen/report"
  /\ lastRedirect = None
  /\ mounts = 1
  /\ showProgressBar = FALSE
  /\ clearTimer = FALSE
  /\ dashboardLoad = FALSE
  /\ AdminUnmounted

Mounted == route = "report"

-----------------------------------------------------------------------------
(* loadModel *)

ModelLoaded ==
  /\ Mounted /\ model = "loading"
  /\ model' = "loaded"
  /\ UNCHANGED <<route, step, capturedImage, aiPrediction, currentLocation, currentAddress,
                 isLoadingLocation, locationLoaded, form, errors, geoSupported, gpsRequest,
                 geocodeCalls, classifyCalls, submits, toasts, justSubmitted, complaints, now,
                 gestures, manualCategory, createLog, lastUpdate,
                 complaintSubmittedTime, lastRead, authVars, dashVars, adminVars>>

ModelLoadFailed ==
  /\ Mounted /\ model = "loading"
  /\ model' = "none"
  /\ UNCHANGED <<route, step, capturedImage, aiPrediction, currentLocation, currentAddress,
                 isLoadingLocation, locationLoaded, form, errors, geoSupported, gpsRequest,
                 geocodeCalls, classifyCalls, submits, toasts, justSubmitted, complaints, now,
                 gestures, manualCategory, createLog, lastUpdate,
                 complaintSubmittedTime, lastRead, authVars, dashVars, adminVars>>

-----------------------------------------------------------------------------
(* Location: getCurrentLocation, handleMapLocationSelect, reverseGeocode *)

\* setValue('latitude', ..); setValue('longitude', ..)
SetCoordinates(f, c) == [f EXCEPT !.latitude = Some(c[1]), !.longitude = Some(c[2])]

\* the success callback of getCurrentPosition, up to its await of reverseGeocode
GeolocationSuccess(c) ==
  /\ Mounted /\ gpsRequest
  /\ gpsRequest' = FALSE
  /\ currentLocation' = Some([latitude |-> c[1], longitude |-> c[2]])
  /\ form' = SetCoordinates(form, c)
  /\ geocodeCalls' = geocodeCalls \cup
       {[n |-> 0, origin |-> "gps", latitude |-> c[1], longitude |-> c[2]]}
  /\ UNCHANGED <<route, step, capturedImage, model, aiPrediction, currentAddress,
                 isLoadingLocation, locationLoaded, errors, geoSupported,
                 classifyCalls, submits, toasts, justSubmitted, complaints, now,
                 gestures, manualCategory, createLog, lastUpdate,
                 complaintSubmittedTime, lastRead, authVars, dashVars, adminVars>>

\* the error callback of getCurrentPosition
GeolocationError ==
  /\ Mounted /\ gpsRequest
  /\ gpsRequest' = FALSE
  /\ isLoadingLocation' = FALSE
  /\ UNCHANGED <<route, step, capturedImage, model, aiPrediction, currentLocation, currentAddress,
                 locationLoaded, form, errors, geoSupported,
                 geocodeCalls, classifyCalls, submits, toasts, justSubmitted, complaints, now,
                 gestures, manualCategory, createLog, lastUpdate,
                 complaintSubmittedTime, lastRead, authVars, dashVars, adminVars>>

\* the 'Update GPS' button of step 3 (disabled while isLoadingLocation); without
\* navigator.geolocation the call sets isLoadingLocation and clears it again.
UpdateGPS ==
  /\ Mounted /\ step = 3 /\ ~isLoadingLocation
  /\ geoSupported
  /\ gestures < MaxGestures
  /\ gestures' = gestures + 1
  /\ isLoadingLocation' = TRUE
  /\ gpsRequest' = TRUE
  /\ UNCHANGED <<route, step, capturedImage, model, aiPrediction, currentLocation, currentAddress,
                 locationLoaded, form, errors, geoSupported,
                 geocodeCalls, classifyCalls, submits, toasts, justSubmitted, complaints, now,
                 manualCategory, createLog, lastUpdate,
                 complaintSubmittedTime, lastRead, authVars, dashVars, adminVars>>

\* a click on the map or the end of a marker drag, up to the await of reverseGeocode
MapLocationSelect(c) ==
  /\ Mounted /\ step = 3
  /\ gestures < MaxGestures
  /\ currentLocation' = Some([latitude |-> c[1], longitude |-> c[2]])
  /\ form' = SetCoordinates(form, c)
  /\ gestures' = gestures + 1
  /\ geocodeCalls' = geocodeCalls \cup
       {[n |-> gestures + 1, origin |-> "map", latitude |-> c[1], longitude |-> c[2]]}
  /\ UNCHANGED <<route, step, capturedImage, model, aiPrediction, currentAddress,
                 isLoadingLocation, locationLoaded, errors, geoSupported, gpsRequest,
                 classifyCalls, submits, toasts, justSubmitted, complaints, now,
                 manualCategory, createLog, lastUpdate,
                 complaintSubmittedTime, lastRead, authVars, dashVars, adminVars>>

\* reverseGeocode returns and the awaiting callback goes on:
\* setCurrentAddress(address); setValue('address', address); the geolocation
\* callback also clears isLoadingLocation and sets locationLoaded.
ReverseGeocodeDone(call, resps) ==
  /\ Mounted /\ call \in geocodeCalls
  /\ LET address == reverseGeocode(call.latitude, call.longitude, resps)
     IN  /\ currentAddress' = address
         /\ form' = [form EXCEPT !.address = address]
  /\ geocodeCalls' = geocodeCalls \ {call}
  /\ isLoadingLocation' = IF call.origin = "gps" THEN FALSE ELSE isLoadingLocation
  /\ locationLoaded' = IF call.origin = "gps" THEN TRUE ELSE locationLoaded
  /\ UNCHANGED <<route, step, capturedImage, model, aiPrediction, currentLocation,
                 errors, geoSupported, gpsRequest,
                 classifyCalls, submits, toasts, justSubmitted, complaints, now,
                 gestures, manualCategory, createLog, lastUpdate,
                 complaintSubmittedTime, lastRead, authVars, dashVars, adminVars>>

-----------------------------------------------------------------------------
(* Image capture and classification: takePhoto, handleFileUpload, processImageWithAI *)

\* takePhoto / the FileReader onload of handleFileUpload: setCapturedImage(imageData),
\* then processImageWithAI(imageData), which returns at once when no model is loaded.
\* The capture buttons are rendered at step 1 while capturedImage is null and are
\* disabled while the model loads.  The call keeps the currentAddress and
\* currentLocation of the render it was started from.
Capture(image) ==
  /\ Mounted /\ step = 1 /\ capturedImage = 0 /\ model # "loading"
  /\ gestures < MaxGestures
  /\ capturedImage' = image
  /\ gestures' = gestures + 1
  /\ classifyCalls' =
       IF model = "none" THEN classifyCalls
       ELSE classifyCalls \cup {[n |-> gestures + 1, image |-> image,
                                 currentAddress |-> currentAddress,
                                 currentLocation |-> currentLocation]}
  /\ UNCHANGED <<route, step, model, aiPrediction, currentLocation, currentAddress,
                 isLoadingLocation, locationLoaded, form, errors, geoSupported, gpsRequest,
                 geocodeCalls, submits, toasts, justSubmitted, complaints, now,
                 manualCategory, createLog, lastUpdate,
                 complaintSubmittedTime, lastRead, authVars, dashVars, adminVars>>

\* the X button on the captured image
RemoveImage ==
  /\ Mounted /\ step = 1 /\ capturedImage # 0
  /\ gestures < MaxGestures
  /\ gestures' = gestures + 1
  /\ capturedImage' = 0
  /\ UNCHANGED <<route, step, model, aiPrediction, currentLocation, currentAddress,
                 isLoadingLocation, locationLoaded, form, errors, geoSupported, gpsRequest,
                 geocodeCalls, classifyCalls, submits, toasts, justSubmitted, complaints, now,
                 manualCategory, createLog, lastUpdate,
                 complaintSubmittedTime, lastRead, authVars, dashVars, adminVars>>

RECURSIVE HighestFrom(_, _, _)
\* the loop that finds the highest confidence prediction, from index i on,
\* with best = [className, probability] so far
HighestFrom(prediction, i, best) ==
  IF i > Len(prediction) THEN best
  ELSE HighestFrom(prediction, i + 1,
                   IF prediction[i].probability > best.probability
                     THEN [className |-> prediction[i].className,
                           probability |-> prediction[i].probability]
                     ELSE best)

Highest(prediction) == HighestFrom(prediction, 1, [className |-> "", probability |-> 0])

\* variant: the threshold taken as an inclusive lower bound
AboveThreshold_Inclusive(probability) == probability >= CONFIDENCE_THRESHOLD

\* if (aiPrediction.probability > CONFIDENCE_THRESHOLD)
AboveThreshold(probability) == probability > CONFIDENCE_THRESHOLD

\* the address put into the template
TemplateAddress(call) ==
  IF call.currentAddress # "" THEN call.currentAddress
  ELSE IF IsSome(call.currentLocation)
    THEN ToFixed6(Val(call.currentLocation).latitude) \o ", "
           \o ToFixed6(Val(call.currentLocation).longitude)
  ELSE "[ADDRESS]"

\* the three setValue calls of the autofill
Autofill(f, category, call) ==
  [f EXCEPT !.category = category,
            !.department = DEPARTMENT_MAPPING[category],
            !.description = ReplaceAddress(DESCRIPTION_TEMPLATES[category], TemplateAddress(call))]

\* model.predict returns and processImageWithAI goes on
ClassifyDone(call) ==
  /\ Mounted /\ call \in classifyCalls
  /\ LET top == Highest(Prediction(call.image))
     IN  /\ aiPrediction' = Some(top)
         /\ form' = IF AboveThreshold(top.probability)
                      THEN Autofill(form, top.className, call) ELSE form
  /\ classifyCalls' = classifyCalls \ {call}
  /\ UNCHANGED <<route, step, capturedImage, model, currentLocation, currentAddress,
                 isLoadingLocation, locationLoaded, errors, geoSupported, gpsRequest,
                 geocodeCalls, submits, toasts, justSubmitted, complaints, now,
                 gestures, manualCategory, createLog, lastUpdate,
                 complaintSubmittedTime, lastRead, authVars, dashVars, adminVars>>

\* the image fails to load or model.predict throws: the catch block only logs
ClassifyFailed(call) ==
  /\ Mounted /\ call \in classifyCalls
  /\ classifyCalls' = classifyCalls \ {call}
  /\ UNCHANGED <<route, step, capturedImage, model, aiPrediction, currentLocation, currentAddress,
                 isLoadingLocation, locationLoaded, form, errors, geoSupported, gpsRequest,
                 geocodeCalls, submits, toasts, justSubmitted, complaints, now,
                 gestures, manualCategory, createLog, lastUpdate,
                 complaintSubmittedTime, lastRead, authVars, dashVars, adminVars>>

-----------------------------------------------------------------------------
(* Navigation between the steps, and the fields the user edits *)

\* the 'Next Step' buttons: at step 1 disabled without an image, at step 2 always enabled
nextStep ==
  /\ Mounted
  /\ \/ step = 1 /\ capturedImage # 0
     \/ step = 2
  /\ gestures < MaxGestures
  /\ gestures' = gestures + 1
  /\ step' = step + 1
  /\ UNCHANGED <<route, capturedImage, model, aiPrediction, currentLocation, currentAddress,
                 isLoadingLocation, locationLoaded, form, errors, geoSupported, gpsRequest,
                 geocodeCalls, classifyCalls, submits, toasts, justSubmitted, complaints, now,
                 manualCategory, createLog, lastUpdate,
                 complaintSubmittedTime, lastRead, authVars, dashVars, adminVars>>

\* variant: the fields of the step that is left are unregistered with their values
prevStep_Unregister ==
  /\ Mounted /\ step \in {2, 3}
  /\ gestures < MaxGestures
  /\ gestures' = gestures + 1
  /\ step' = step - 1
  /\ form' = IF step = 3 THEN [form EXCEPT !.address = ""]
             ELSE [form EXCEPT !.category = "", !.description = "", !.priority = "medium"]
  /\ UNCHANGED <<route, capturedImage, model, aiPrediction, currentLocation, currentAddress,
                 isLoadingLocation, locationLoaded, errors, geoSupported, gpsRequest,
                 geocodeCalls, classifyCalls, submits, toasts, justSubmitted, complaints, now,
                 manualCategory, createLog, lastUpdate,
                 complaintSubmittedTime, lastRead, authVars, dashVars, adminVars>>

\* the 'Previous' buttons of steps 2 and 3
prevStep ==
  /\ Mounted /\ step \in {2, 3}
  /\ gestures < MaxGestures
  /\ gestures' = gestures + 1
  /\ step' = step - 1
  /\ UNCHANGED <<route, capturedImage, model, aiPrediction, currentLocation, currentAddress,
                 isLoadingLocation, locationLoaded, form, errors, geoSupported, gpsRequest,
                 geocodeCalls, classifyCalls, submits, toasts, justSubmitted, complaints, now,
                 manualCategory, createLog, lastUpdate,
                 complaintSubmittedTime, lastRead, authVars, dashVars, adminVars>>

\* the category <select> of step 2
SelectCategory(c) ==
  /\ Mounted /\ step = 2 /\ gestures < MaxGestures
  /\ form' = [form EXCEPT !.category = c]
  /\ manualCategory' = TRUE
  /\ gestures' = gestures + 1
  /\ UNCHANGED <<route, step, capturedImage, model, aiPrediction, currentLocation, currentAddress,
                 isLoadingLocation, locationLoaded, errors, geoSupported, gpsRequest,
                 geocodeCalls, classifyCalls, submits, toasts, justSubmitted, complaints, now,
                 createLog, lastUpdate,
                 complaintSubmittedTime, lastRead, authVars, dashVars, adminVars>>

\* the description <textarea> of step 2
TypeDescription(d) ==
  /\ Mounted /\ step = 2 /\ gestures < MaxGestures
  /\ form' = [form EXCEPT !.description = d]
  /\ gestures' = gestures + 1
  /\ UNCHANGED <<route, step, capturedImage, model, aiPrediction, currentLocation, currentAddress,
                 isLoadingLocation, locationLoaded, errors, geoSupported, gpsRequest,
                 geocodeCalls, classifyCalls, submits, toasts, justSubmitted, complaints, now,
                 manualCategory, createLog, lastUpdate,
                 complaintSubmittedTime, lastRead, authVars, dashVars, adminVars>>

\* the priority <select> of step 2
SelectPriority(p) ==
  /\ Mounted /\ step = 2 /\ gestures < MaxGestures
  /\ form' = [form EXCEPT !.priority = p]
  /\ gestures' = gestures + 1
  /\ UNCHANGED <<route, step, capturedImage, model, aiPrediction, currentLocation, currentAddress,
                 isLoadingLocation, locationLoaded, errors, geoSupported, gpsRequest,
                 geocodeCalls, classifyCalls, submits, toasts, justSubmitted, complaints, now,
                 manualCategory, createLog, lastUpdate,
                 complaintSubmittedTime, lastRead, authVars, dashVars, adminVars>>

\* the address <input> of step 3
TypeAddress(a) ==
  /\ Mounted /\ step = 3 /\ gestures < MaxGestures
  /\ form' = [form EXCEPT !.address = a]
  /\ gestures' = gestures + 1
  /\ UNCHANGED <<route, step, capturedImage, model, aiPrediction, currentLocation, currentAddress,
                 isLoadingLocation, locationLoaded, errors, geoSupported, gpsRequest,
                 geocodeCalls, classifyCalls, submits, toasts, justSubmitted, complaints, now,
                 manualCategory, createLog, lastUpdate,
                 complaintSubmittedTime, lastRead, authVars, dashVars, adminVars>>

-----------------------------------------------------------------------------
(* The complaints table (SUPABASE_INTEGRATION.md) and complaintService.js *)

\* the columns declared NOT NULL that have no default; a property that is
\* undefined in the inserted object arrives as NULL
NotNullOk(data) == IsSome(data.department)

\* INSERT of one row at time t: id is generated, created_at and updated_at
\* default to NOW(), the other columns the object does not name are NULL
InsertRow(rows, data, t) ==
  Append(rows,
    [id |-> Len(rows) + 1,
     user_id |-> data.user_id,
     category |-> data.category,
     description |-> data.description,
     priority |-> data.priority,
     status |-> data.status,
     department |-> Val(data.department),
     address |-> data.address,
     latitude |-> data.latitude,
     longitude |-> data.longitude,
     image_url |-> data.image_url,
     ai_prediction |-> data.ai_prediction,
     ai_confidence |-> data.ai_confidence,
     created_at |-> t,
     updated_at |-> t,
     resolved_at |-> None,
     admin_notes |-> "",
     assigned_to |-> ""])

\* variant: resolved_at stamped on every status change
UpdateData_AnyStatus(updates, t) ==
  LET base == [updated_at |-> t] @@ updates
  IN  IF "status" \in DOMAIN updates THEN [resolved_at |-> Some(t)] @@ base ELSE base

\* updateData of updateComplaintStatus: {...updates, updated_at: now}, and
\* resolved_at: now when updates.status === 'resolved'
UpdateData(updates, t) ==
  LET base == [updated_at |-> t] @@ updates
  IN  IF "status" \in DOMAIN updates /\ updates.status = "resolved"
        THEN [resolved_at |-> Some(t)] @@ base
        ELSE base

\* UPDATE ... SET updateData of one row; the trigger then sets updated_at = NOW()
UpdateRow(row, updateData, t) ==
  [[c \in DOMAIN row |-> IF c \in DOMAIN updateData THEN updateData[c] ELSE row[c]]
     EXCEPT !.updated_at = t]

RowIds(rows) == {rows[i].id : i \in 1..Len(rows)}

\* updateComplaintStatus(complaintId, updates) at time t: the new table; an id
\* that matches no row changes nothing (.single() then reports an error)
UpdateTable(rows, complaintId, updates, t) ==
  [i \in 1..Len(rows) |->
     IF rows[i].id = complaintId THEN UpdateRow(rows[i], UpdateData(updates, t), t)
     ELSE rows[i]]

\* the policy "Admins update all complaints" in force with the mock
\* authentication: USING (true), whatever the session of the caller
UpdatePolicy(callerType) == TRUE

\* variant: .maybeSingle(), which accepts an empty result
Single_Maybe(rows) == [error |-> Len(rows) > 1]

\* .single() on the rows a statement returns: an error unless there is exactly one
Single(rows) == [error |-> Len(rows) # 1]

\* the rows .update(updateData).eq('id', complaintId).select() returns
UpdatedRows(rows, complaintId, callerType) ==
  SelectSeq(rows, LAMBDA r : r.id = complaintId /\ UpdatePolicy(callerType))

-----------------------------------------------------------------------------
(* Reading the table: getAllComplaints, getComplaintStats *)

\* The texts of the exploration, as sequences of characters
TextSamples ==
  { <<"P", "o", "t", "h", "o", "l", "e">>,
    <<"G", "a", "r", "b", "a", "g", "e">>,
    <<"p", "o", "t", "h", "o", "l", "e", " ", "n", "e", "a", "r", " ", "g", "a", "t", "e">>,
    <<"g", "a", "r", "b", "a", "g", "e", " ", "a", "t", " ", "t", "h", "e", " ", "c", "o", "r", "n", "e", "r">>,
    <<"1", "2", " ", "M", "G", " ", "R", "o", "a", "d", ",", " ", "L", "u", "c", "k", "n", "o", "w">>,
    <<"G", "P", "S", " ", "L", "o", "c", "a", "t", "i", "o", "n", ":", " ", "-", "0", ".", "0", "0", "0", "0", "0", "1", ",", " ", "0", ".", "1", "2", "3", "4", "5", "6">> }

RECURSIVE Str(_)
\* the string of a sequence of characters
Str(q) == IF q = <<>> THEN "" ELSE q[1] \o Str(Tail(q))

\* the characters of a stored text
Chars(s) == CHOOSE q \in TextSamples \cup {<<>>} : Str(q) = s

UpperCase == <<"A", "B", "C", "D", "E", "F", "G", "H", "I", "J", "K", "L", "M",
               "N", "O", "P", "Q", "R", "S", "T", "U", "V", "W", "X", "Y", "Z">>
LowerCase == <<"a", "b", "c", "d", "e", "f", "g", "h", "i", "j", "k", "l", "m",
               "n", "o", "p", "q", "r", "s", "t", "u", "v", "w", "x", "y", "z">>

Lower(c) ==
  IF \E i \in 1..Len(UpperCase) : UpperCase[i] = c
    THEN LowerCase[CHOOSE i \in 1..Len(UpperCase) : UpperCase[i] = c]
    ELSE c

RECURSIVE ILike(_, _)
\* text ILIKE pattern: '%' stands for any run of characters, '_' for any one
\* character, every other character for itself in either case
ILike(text, pattern) ==
  IF pattern = <<>> THEN text = <<>>
  ELSE IF pattern[1] = "%"
    THEN ILike(text, Tail(pattern)) \/ (text # <<>> /\ ILike(Tail(text), pattern))
  ELSE IF text = <<>> THEN FALSE
  ELSE IF pattern[1] = "_" THEN ILike(Tail(text), Tail(pattern))
  ELSE Lower(text[1]) = Lower(pattern[1]) /\ ILike(Tail(text), Tail(pattern))

\* `description.ilike.%${search}%,address.ilike.%${search}%` inside .or()
SearchMatches(row, search) ==
  LET pattern == <<"%">> \o search \o <<"%">>
  IN  ILike(Chars(row.description), pattern) \/ ILike(Chars(row.address), pattern)

\* the .eq filters and the .or filter a getAllComplaints call adds; a filter
\* that is absent or '' adds nothing
FilterMatches(row, filters) ==
  /\ (filters.status # "" /\ filters.status # "all") => row.status = filters.status
  /\ filters.category # "" => row.category = filters.category
  /\ filters.department # "" => row.department = filters.department
  /\ filters.search # <<>> => SearchMatches(row, filters.search)

RECURSIVE OrderByCreatedAtDesc(_)
\* .order('created_at', { ascending: false })
OrderByCreatedAtDesc(rows) ==
  IF rows = <<>> THEN <<>>
  ELSE LET i == CHOOSE i \in 1..Len(rows) :
                  \A j \in 1..Len(rows) : rows[j].created_at <= rows[i].created_at
       IN  <<rows[i]>> \o
             OrderByCreatedAtDesc(SubSeq(rows, 1, i - 1) \o SubSeq(rows, i + 1, Len(rows)))

\* what getAllComplaints(filters) returns
AllComplaints(rows, filters) ==
  OrderByCreatedAtDesc(SelectSeq(rows, LAMBDA r : FilterMatches(r, filters)))

\* data.filter(c => c.status === status).length
CountStatus(data, status) == Len(SelectSeq(data, LAMBDA c : c.status = status))

\* the count the forEach loop leaves in stats.byCategory[category]
CountCategory(data, category) == Len(SelectSeq(data, LAMBDA c : c.category = category))

\* the stats object built from the rows selected
StatsOf(data) ==
  [total |-> Len(data),
   pending |-> CountStatus(data, "pending"),
   inProgress |-> CountStatus(data, "in_progress"),
   resolved |-> CountStatus(data, "resolved"),
   byCategory |-> [k \in {data[i].category : i \in 1..Len(data)} |-> CountCategory(data, k)]]

\* getComplaintStats(userId), userId "" for null.  supabase.from('complaints')
\* is the query builder, which offers select, insert, update, upsert and delete;
\* the filters exist on what select() returns.  With a userId the call
\* query.eq('user_id', userId) is made on the builder itself and throws a
\* TypeError, which the catch block logs and rethrows.
ComplaintStats(rows, userId) ==
  IF userId # "" THEN [error |-> TRUE, data |-> None]
  ELSE [error |-> FALSE, data |-> Some(StatsOf(rows))]

-----------------------------------------------------------------------------
(* Submission: handleSubmit(onSubmit) *)

\* register(name, {required: ...}) and the step that renders the field
RequiredFields == {"category", "description", "address"}

MountedFields(s) ==
  CASE s = 2 -> {"category", "priority", "description"}
    [] s = 3 -> {"address"}
    [] OTHER -> {}

\* the built-in validation of handleSubmit: it checks the rules of the fields
\* whose input is mounted, and skips a registered field whose input is not rendered
ValidationErrors(f, s) == {name \in RequiredFields \cap MountedFields(s) : f[name] = ""}

\* obj?.[name] for a property the object may lack
Prop(obj, name) ==
  IF IsSome(obj) /\ name \in DOMAIN Val(obj) THEN Some(Val(obj)[name]) ELSE None

\* parseFloat(a || b || 0) for a and b numbers or absent
FirstTruthy(a, b) ==
  IF IsSome(a) /\ Val(a) # 0 THEN Val(a)
  ELSE IF IsSome(b) /\ Val(b) # 0 THEN Val(b)
  ELSE 0

\* complaintData of onSubmit, from the data handleSubmit passed and from the
\* state the call's closure captured
ComplaintData(sub) ==
  LET data == sub.data
  IN  [user_id |-> SessionUserId,
       category |-> data.category,
       description |-> data.description,
       priority |-> data.priority,
       department |-> IF data.department # "" THEN Some(data.department)
                      ELSE IF data.category \in DOMAIN DEPARTMENT_MAPPING
                        THEN Some(DEPARTMENT_MAPPING[data.category])
                      ELSE None,
       address |-> Or(data.address, Or(sub.currentAddress, "Address not available")),
       latitude |-> FirstTruthy(data.latitude, Prop(sub.currentLocation, "lat")),
       longitude |-> FirstTruthy(data.longitude, Prop(sub.currentLocation, "lng")),
       image_url |-> sub.imageUrl,
       ai_prediction |-> IF IsSome(sub.aiPrediction)
                           THEN Some([predictedClass |-> Val(sub.aiPrediction).className,
                                      confidence |-> Val(sub.aiPrediction).probability])
                           ELSE None,
       ai_confidence |-> IF IsSome(sub.aiPrediction) /\ Val(sub.aiPrediction).probability # 0
                           THEN Some(Val(sub.aiPrediction).probability) ELSE None,
       status |-> "pending"]

\* the 'Submit Report' button of step 3 (never disabled): handleSubmit validates
\* and, without errors, calls onSubmit, which runs up to its first await: the
\* image upload when an image is captured, else submitComplaint
PressSubmit ==
  /\ Mounted /\ step = 3
  /\ gestures < MaxGestures
  /\ gestures' = gestures + 1
  /\ errors' = ValidationErrors(form, step)
  /\ IF errors' # {}
       THEN UNCHANGED <<submits, createLog>>
       ELSE LET sub == [n |-> gestures + 1, data |-> form,
                        capturedImage |-> capturedImage, aiPrediction |-> aiPrediction,
                        currentAddress |-> currentAddress, currentLocation |-> currentLocation,
                        pc |-> IF capturedImage # 0 THEN "upload" ELSE "insert",
                        imageUrl |-> None]
            IN  /\ submits' = submits \cup {sub}
                /\ createLog' = IF sub.pc = "insert"
                                  THEN Append(createLog, [submit |-> sub.n, data |-> ComplaintData(sub)])
                                  ELSE createLog
  /\ UNCHANGED <<route, step, capturedImage, model, aiPrediction, currentLocation, currentAddress,
                 isLoadingLocation, locationLoaded, form, geoSupported, gpsRequest,
                 geocodeCalls, classifyCalls, toasts, justSubmitted, complaints, now,
                 manualCategory, lastUpdate,
                 complaintSubmittedTime, lastRead, authVars, dashVars, adminVars>>


\* uploadImage(file, userId): the path is `${userId}/${Date.now()}.${fileExt}`
UploadedUrl(userId, t) == userId \o "/" \o IntToStr(t) \o ".jpg"

\* variant: a failed upload abandons the submission
UploadDone_Fatal(sub, ok) ==
  /\ sub \in submits /\ sub.pc = "upload"
  /\ LET next == [sub EXCEPT !.pc = "insert",
                             !.imageUrl = IF ok THEN Some(UploadedUrl(SessionUserId, now)) ELSE None]
     IN  IF ok
           THEN /\ submits' = (submits \ {sub}) \cup {next}
                /\ createLog' = Append(createLog, [submit |-> sub.n, data |-> ComplaintData(next)])
           ELSE /\ submits' = submits \ {sub}
                /\ createLog' = createLog
  /\ toasts' = IF ok THEN toasts ELSE toasts \cup {<<sub.n, "upload failed">>}
  /\ UNCHANGED <<route, step, capturedImage, model, aiPrediction, currentLocation, currentAddress,
                 isLoadingLocation, locationLoaded, form, errors, geoSupported, gpsRequest,
                 geocodeCalls, classifyCalls, justSubmitted, complaints, now,
                 gestures, manualCategory, lastUpdate,
                 complaintSubmittedTime, lastRead, authVars, dashVars, adminVars>>

\* the upload of onSubmit settles: on failure the inner catch shows a toast and
\* imageUrl stays null; either way onSubmit goes on to call submitComplaint
UploadDone(sub, ok) ==
  /\ sub \in submits /\ sub.pc = "upload"
  /\ LET next == [sub EXCEPT !.pc = "insert",
                             !.imageUrl = IF ok THEN Some(UploadedUrl(SessionUserId, now)) ELSE None]
     IN  /\ submits' = (submits \ {sub}) \cup {next}
         /\ createLog' = Append(createLog, [submit |-> sub.n, data |-> ComplaintData(next)])
  /\ toasts' = IF ok THEN toasts ELSE toasts \cup {<<sub.n, "upload failed">>}
  /\ UNCHANGED <<route, step, capturedImage, model, aiPrediction, currentLocation, currentAddress,
                 isLoadingLocation, locationLoaded, form, errors, geoSupported, gpsRequest,
                 geocodeCalls, classifyCalls, justSubmitted, complaints, now,
                 gestures, manualCategory, lastUpdate,
                 complaintSubmittedTime, lastRead, authVars, dashVars, adminVars>>

\* variant: a failed submitComplaint sends the wizard back to a blank first step
InsertDone_Reset(sub, ok) ==
  /\ sub \in submits /\ sub.pc = "insert"
  /\ submits' = submits \ {sub}
  /\ IF ok /\ NotNullOk(ComplaintData(sub))
       THEN /\ complaints' = InsertRow(complaints, ComplaintData(sub), now)
            /\ now' = now + 1
            /\ toasts' = toasts \cup {<<sub.n, "submitted">>}
            /\ justSubmitted' = TRUE
            /\ complaintSubmittedTime' = Some(now)
            /\ route' = "citizen"
            /\ path' = "/citizen"
            /\ UNCHANGED <<step, form>>
       ELSE /\ toasts' = toasts \cup {<<sub.n, "submit failed">>}
            /\ step' = 1
            /\ form' = DefaultValues
            /\ UNCHANGED <<complaints, now, justSubmitted, complaintSubmittedTime, route, path>>
  /\ UNCHANGED <<capturedImage, model, aiPrediction, currentLocation, currentAddress,
                 isLoadingLocation, locationLoaded, errors, geoSupported, gpsRequest,
                 geocodeCalls, classifyCalls,
                 gestures, manualCategory, createLog, lastUpdate,
                 lastRead, user, loading, savedUser, authCalls, lastRedirect, mounts, dashVars, adminVars>>

\* submitComplaint settles.  ok is what the network and the service allow; the
\* table also rejects a row that breaks a NOT NULL constraint.  On success:
\* success toast, the just-submitted flag, navigate('/citizen'); on failure the
\* outer catch shows an error toast.
InsertDone(sub, ok) ==
  /\ sub \in submits /\ sub.pc = "insert"
  /\ submits' = submits \ {sub}
  /\ IF ok /\ NotNullOk(ComplaintData(sub))
       THEN /\ complaints' = InsertRow(complaints, ComplaintData(sub), now)
            /\ now' = now + 1
            /\ toasts' = toasts \cup {<<sub.n, "submitted">>}
            /\ justSubmitted' = TRUE
            /\ complaintSubmittedTime' = Some(now)
            /\ route' = "citizen"
            /\ path' = "/citizen"
       ELSE /\ toasts' = toasts \cup {<<sub.n, "submit failed">>}
            /\ UNCHANGED <<complaints, now, justSubmitted, complaintSubmittedTime, route, path>>
  /\ UNCHANGED <<step, capturedImage, model, aiPrediction, currentLocation, currentAddress,
                 isLoadingLocation, locationLoaded, form, errors, geoSupported, gpsRequest,
                 geocodeCalls, classifyCalls,
                 gestures, manualCategory, createLog, lastUpdate,
                 lastRead, user, loading, savedUser, authCalls, lastRedirect, mounts, dashVars, adminVars>>

-----------------------------------------------------------------------------
(* The wizard session *)

Next ==
  \/ ModelLoaded
  \/ ModelLoadFailed
  \/ \E c \in DevicePositions : GeolocationSuccess(c)
  \/ GeolocationError
  \/ UpdateGPS
  \/ \E c \in MapPositions : MapLocationSelect(c)
  \/ \E call \in geocodeCalls : \E resps \in GeocodeAnswers : ReverseGeocodeDone(call, resps)
  \/ \E image \in Images : Capture(image)
  \/ RemoveImage
  \/ \E call \in classifyCalls : ClassifyDone(call)
  \/ \E call \in classifyCalls : ClassifyFailed(call)
  \/ nextStep
  \/ prevStep
  \/ \E c \in CategoryOptions : SelectCategory(c)
  \/ \E d \in TypedDescriptions : TypeDescription(d)
  \/ \E p \in Priorities : SelectPriority(p)
  \/ \E a \in TypedAddresses : TypeAddress(a)
  \/ PressSubmit
  \/ \E sub \in submits : \E ok \in BOOLEAN : UploadDone(sub, ok)
  \/ \E sub \in submits : \E ok \in BOOLEAN : InsertDone(sub, ok)

Spec == Init /\ [][Next]_vars

-----------------------------------------------------------------------------
(* The wizard from its first capture on: retakes of the image *)

\* the answers of the providers to the reverse geocoding of the device position
DeviceGeocodeAnswers ==
  { <<Throws(NominatimEmpty), Throws(BigDataCloudEmpty), Throws(NominatimEmpty)>>,
    <<NominatimFull, Throws(BigDataCloudEmpty), Throws(NominatimEmpty)>> }

\* The state when the first image has just been captured: the model is loaded,
\* the device position and its address have arrived, processImageWithAI is
\* running for the image.  gestures counts the gestures made from here on.
InitRetake ==
  /\ route = "report"
  /\ step = 1
  /\ capturedImage \in Images
  /\ model = "loaded"
  /\ aiPrediction = None
  /\ \E c \in DevicePositions : \E resps \in DeviceGeocodeAnswers :
       /\ currentLocation = Some([latitude |-> c[1], longitude |-> c[2]])
       /\ currentAddress = reverseGeocode(c[1], c[2], resps)
       /\ form = [SetCoordinates(DefaultValues, c) EXCEPT !.address = reverseGeocode(c[1], c[2], resps)]
  /\ geoSupported = TRUE
  /\ gpsRequest = FALSE
  /\ isLoadingLocation = FALSE
  /\ locationLoaded = TRUE
  /\ errors = {}
  /\ geocodeCalls = {}
  /\ classifyCalls = {[n |-> 0, image |-> capturedImage, currentAddress |-> currentAddress,
                       currentLocation |-> currentLocation]}
  /\ submits = {}
  /\ toasts = {}
  /\ justSubmitted = FALSE
  /\ complaints = <<>>
  /\ now = 1
  /\ gestures = 0
  /\ manualCategory = FALSE
  /\ createLog = <<>>
  /\ lastUpdate = None
  /\ lastRead = None
  /\ complaintSubmittedTime = None
  /\ user = Some(WizardUser)
  /\ loading = FALSE
  /\ savedUser = Some(Stringify(WizardUser))
  /\ authCalls = {}
  /\ path = "/citizen/report"
  /\ lastRedirect = None
  /\ mounts = 1
  /\ showProgressBar = FALSE
  /\ clearTimer = FALSE
  /\ dashboardLoad = FALSE
  /\ AdminUnmounted

\* the image, its classification, the steps and the submission
NextRetake ==
  \/ \E image \in Images : Capture(image)
  \/ RemoveImage
  \/ \E call \in classifyCalls : ClassifyDone(call)
  \/ \E call \in classifyCalls : ClassifyFailed(call)
  \/ nextStep
  \/ prevStep
  \/ PressSubmit
  \/ \E sub \in submits : \E ok \in BOOLEAN : UploadDone(sub, ok)
  \/ \E sub \in submits : \E ok \in BOOLEAN : InsertDone(sub, ok)

SpecRetake == InitRetake /\ [][NextRetake]_vars

-----------------------------------------------------------------------------
(* The repository on its own: any caller, any sequence of calls *)

Statuses == {"pending", "in_progress", "resolved", "rejected"}

\* complaint objects as onSubmit builds them
ComplaintSamples ==
  { [user_id |-> SessionUserId, category |-> "Pothole", description |-> "pothole near gate",
     priority |-> "medium", department |-> Some("Road Authority"),
     address |-> "12 MG Road, Lucknow", latitude |-> 268467004, longitude |-> 809462007,
     image_url |-> None, ai_prediction |-> None, ai_confidence |-> None, status |-> "pending"],
    [user_id |-> "citizen-2", category |-> "Garbage", description |-> "garbage at the corner",
     priority |-> "high", department |-> Some("Sanitation Department"),
     address |-> "GPS Location: -0.000001, 0.123456", latitude |-> 0 - 6, longitude |-> 1234564,
     image_url |-> Some("citizen-2/1.jpg"),
     ai_prediction |-> Some([predictedClass |-> "Garbage", confidence |-> 61]),
     ai_confidence |-> Some(61), status |-> "pending"] }

\* updates objects an administrator's client may pass
UpdateSamples ==
  {[status |-> st] : st \in Statuses}
    \cup { [admin_notes |-> "inspected"],
           [status |-> "in_progress", assigned_to |-> "admin-1"],
           [status |-> "pending", resolved_at |-> None],
           [category |-> "Garbage"],
           [user_id |-> "citizen-2"] }

NoFilters == [status |-> "", category |-> "", department |-> "", search |-> <<>>]

\* filters objects a caller may pass to getAllComplaints; search is the text
\* as a sequence of characters
FilterSamples ==
  { NoFilters,
    [NoFilters EXCEPT !.status = "all"],
    [NoFilters EXCEPT !.status = "pending"],
    [NoFilters EXCEPT !.category = "Pothole"],
    [NoFilters EXCEPT !.department = "Sanitation Department"],
    [NoFilters EXCEPT !.search = <<"G", "A", "T", "E">>],
    [NoFilters EXCEPT !.search = <<"l", "u", "c", "k", "n", "o", "w">>],
    [NoFilters EXCEPT !.status = "resolved", !.search = <<"g", "p", "s">>],
    [NoFilters EXCEPT !.search = <<"p", "_", "t">>] }

\* the userId a caller may pass to getComplaintStats, "" for none
StatsUsers == {"", SessionUserId, "citizen-2"}

InitRepo ==
  /\ route = "admin"
  /\ step = 1
  /\ capturedImage = 0
  /\ model = "loading"
  /\ aiPrediction = None
  /\ currentLocation = None
  /\ currentAddress = ""
  /\ geoSupported = FALSE
  /\ gpsRequest = FALSE
  /\ isLoadingLocation = FALSE
  /\ locationLoaded = FALSE
  /\ form = DefaultValues
  /\ errors = {}
  /\ geocodeCalls = {}
  /\ classifyCalls = {}
  /\ submits = {}
  /\ toasts = {}
  /\ justSubmitted = FALSE
  /\ complaints = <<>>
  /\ now = 1
  /\ gestures = 0
  /\ manualCategory = FALSE
  /\ createLog = <<>>
  /\ lastUpdate = None
  /\ lastRead = None
  /\ complaintSubmittedTime = None
  /\ user = None
  /\ loading = FALSE
  /\ savedUser = None
  /\ authCalls = {}
  /\ path = "/"
  /\ lastRedirect = None
  /\ mounts = 1
  /\ showProgressBar = FALSE
  /\ clearTimer = FALSE
  /\ dashboardLoad = FALSE
  /\ AdminUnmounted

\* submitComplaint(complaintData), the insert succeeding
submitComplaint(complaintData) ==
  /\ now <= MaxCalls
  /\ NotNullOk(complaintData)
  /\ complaints' = InsertRow(complaints, complaintData, now)
  /\ now' = now + 1
  /\ UNCHANGED <<wizardVars, gestures, lastUpdate,
                 complaintSubmittedTime, lastRead, authVars, dashVars, adminVars>>

\* updateComplaintStatus(complaintId, updates), called from a session whose
\* user.userType is callerType; error: the call throws
updateComplaintStatus(complaintId, updates, callerType) ==
  /\ now <= MaxCalls
  /\ complaints' = UpdateTable(complaints, complaintId, updates, now)
  /\ lastUpdate' = Some([complaintId |-> complaintId, updates |-> updates, time |-> now,
                         before |-> complaints,
                         error |-> Single(UpdatedRows(complaints, complaintId, callerType)).error])
  /\ now' = now + 1
  /\ UNCHANGED <<wizardVars, gestures,
                 complaintSubmittedTime, lastRead, authVars, dashVars, adminVars>>

\* getAllComplaints(filters)
getAllComplaints(filters) ==
  /\ lastRead' = Some([op |-> "getAllComplaints", filters |-> filters, error |-> FALSE,
                       data |-> AllComplaints(complaints, filters)])
  /\ UNCHANGED <<wizardVars, gestures, complaints, now, lastUpdate,
                 complaintSubmittedTime, authVars, dashVars, adminVars>>

\* getComplaintStats(userId)
getComplaintStats(userId) ==
  /\ lastRead' = Some([op |-> "getComplaintStats", userId |-> userId,
                       error |-> ComplaintStats(complaints, userId).error,
                       data |-> ComplaintStats(complaints, userId).data])
  /\ UNCHANGED <<wizardVars, gestures, complaints, now, lastUpdate,
                 complaintSubmittedTime, authVars, dashVars, adminVars>>

NextRepo ==
  \/ \E complaintData \in ComplaintSamples : submitComplaint(complaintData)
  \/ \E complaintId \in 1..(Len(complaints) + 1) : \E updates \in UpdateSamples :
       \E callerType \in UserTypes : updateComplaintStatus(complaintId, updates, callerType)

SpecRepo == InitRepo /\ [][NextRepo]_vars

-----------------------------------------------------------------------------
(* Reads of the table: any table the calls above can leave, any read *)

\* tables after no call, one or two inserts, and an update of a status
TableSamples ==
  LET one == {InsertRow(<<>>, c, 1) : c \in ComplaintSamples}
      two == {InsertRow(t, c, 2) : t \in one, c \in ComplaintSamples}
      upd == {UpdateTable(t, id, [status |-> st], 3) :
                t \in two, id \in 1..2, st \in Statuses}
  IN  {<<>>} \cup one \cup two \cup upd

InitRead ==
  /\ route = "admin"
  /\ step = 1
  /\ capturedImage = 0
  /\ model = "loading"
  /\ aiPrediction = None
  /\ currentLocation = None
  /\ currentAddress = ""
  /\ geoSupported = FALSE
  /\ gpsRequest = FALSE
  /\ isLoadingLocation = FALSE
  /\ locationLoaded = FALSE
  /\ form = DefaultValues
  /\ errors = {}
  /\ geocodeCalls = {}
  /\ classifyCalls = {}
  /\ submits = {}
  /\ toasts = {}
  /\ justSubmitted = FALSE
  /\ complaints \in TableSamples
  /\ now = 4
  /\ gestures = 0
  /\ manualCategory = FALSE
  /\ createLog = <<>>
  /\ lastUpdate = None
  /\ lastRead = None
  /\ complaintSubmittedTime = None
  /\ user = None
  /\ loading = FALSE
  /\ savedUser = None
  /\ authCalls = {}
  /\ path = "/"
  /\ lastRedirect = None
  /\ mounts = 1
  /\ showProgressBar = FALSE
  /\ clearTimer = FALSE
  /\ dashboardLoad = FALSE
  /\ AdminUnmounted

NextRead ==
  \/ \E filters \in FilterSamples : getAllComplaints(filters)
  \/ \E userId \in StatsUsers : getComplaintStats(userId)

SpecRead == InitRead /\ [][NextRead]_vars

-----------------------------------------------------------------------------
(* AdminDashboard: the list and the counters loaded on every change of the
   status filter and of the search text *)

\* the options of the status <select>
StatusOptions == {"all", "pending", "in_progress", "resolved"}

\* what the administrator may have in the search box after a change event
SearchSamples ==
  { <<>>, <<"g", "a", "t", "e">>, <<"L", "u", "c", "k", "n", "o", "w">>, <<"G", "a", "r">> }

\* the filters object loadData passes to getAllComplaints
LoadFilters(filter, search) ==
  [NoFilters EXCEPT !.status = IF filter # "all" THEN filter ELSE "", !.search = search]

\* text.split(',')[0]
FirstPiece(text) ==
  LET commas == {i \in 1..Len(text) : text[i] = ","}
  IN  IF commas = {} THEN text
      ELSE SubSeq(text, 1, (CHOOSE i \in commas : \A j \in commas : i <= j) - 1)

\* `${complaint.category} - ${complaint.address?.split(',')[0] || 'Location'}`
TitleChars(category, address) ==
  Chars(category) \o <<" ", "-", " ">>
    \o (IF FirstPiece(Chars(address)) # <<>> THEN FirstPiece(Chars(address))
        ELSE <<"L", "o", "c", "a", "t", "i", "o", "n">>)

\* one element of transformedComplaints
Transform(complaint) ==
  [id |-> complaint.id,
   title |-> Str(TitleChars(complaint.category, complaint.address)),
   description |-> complaint.description,
   status |-> complaint.status,
   priority |-> complaint.priority,
   category |-> complaint.category,
   department |-> complaint.department,
   location |-> complaint.address,
   reporter |-> "User",
   createdAt |-> complaint.created_at,
   image |-> complaint.image_url,
   latitude |-> complaint.latitude,
   longitude |-> complaint.longitude]

\* complaintsData.map(...)
TransformAll(complaintsData) == [i \in 1..Len(complaintsData) |-> Transform(complaintsData[i])]

\* String.prototype.toLowerCase
ToLowerCase(text) == [i \in 1..Len(text) |-> Lower(text[i])]

\* String.prototype.includes
StringIncludes(text, search) ==
  \E off \in 0..(Len(text) - Len(search)) : SubSeq(text, off + 1, off + Len(search)) = search

\* matchesSearch of filteredComplaints: title, reporter or location includes
\* the search text, all in lower case
MatchesSearch(complaint, query) ==
  \/ StringIncludes(ToLowerCase(TitleChars(complaint.category, complaint.location)), ToLowerCase(query))
  \/ StringIncludes(ToLowerCase(<<"U", "s", "e", "r">>), ToLowerCase(query))
  \/ StringIncludes(ToLowerCase(Chars(complaint.location)), ToLowerCase(query))

\* filteredComplaints, computed on every render from the state
FilteredComplaints(list, filter, query) ==
  SelectSeq(list, LAMBDA c : (filter = "all" \/ c.status = filter) /\ MatchesSearch(c, query))

\* Date.prototype.toDateString of a time counted in hours: its day
ToDateString(t) == t \div 24

\* the object passed to setStats at time t
DashboardStats(list, t) ==
  [total |-> Len(list),
   pending |-> Len(SelectSeq(list, LAMBDA c : c.status = "pending")),
   inProgress |-> Len(SelectSeq(list, LAMBDA c : c.status = "in_progress")),
   resolved |-> Len(SelectSeq(list, LAMBDA c : c.status = "resolved")),
   today |-> Len(SelectSeq(list, LAMBDA c : ToDateString(c.createdAt) = ToDateString(t)))]

\* the tables the dashboard is opened on: two complaints of different categories
AdminTables == {t \in TableSamples : Len(t) = 2 /\ t[1].category # t[2].category}

\* The dashboard after its first render: the effect has called loadData
InitAdmin ==
  /\ route = "admin"
  /\ step = 1
  /\ capturedImage = 0
  /\ model = "loading"
  /\ aiPrediction = None
  /\ currentLocation = None
  /\ currentAddress = ""
  /\ geoSupported = FALSE
  /\ gpsRequest = FALSE
  /\ isLoadingLocation = FALSE
  /\ locationLoaded = FALSE
  /\ form = DefaultValues
  /\ errors = {}
  /\ geocodeCalls = {}
  /\ classifyCalls = {}
  /\ submits = {}
  /\ toasts = {}
  /\ justSubmitted = FALSE
  /\ complaints \in AdminTables
  /\ now = 4
  /\ gestures = 0
  /\ manualCategory = FALSE
  /\ createLog = <<>>
  /\ lastUpdate = None
  /\ lastRead = None
  /\ complaintSubmittedTime = None
  /\ user = Some(LoginUser("9c0d-4a7e", <<"asha", "example.in">>, "admin", 0))
  /\ loading = FALSE
  /\ savedUser = Some(Stringify(LoginUser("9c0d-4a7e", <<"asha", "example.in">>, "admin", 0)))
  /\ authCalls = {}
  /\ path = "/admin"
  /\ lastRedirect = None
  /\ mounts = 1
  /\ showProgressBar = FALSE
  /\ clearTimer = FALSE
  /\ dashboardLoad = FALSE
  /\ selectedFilter = "all"
  /\ searchQuery = <<>>
  /\ dashboardComplaints = <<>>
  /\ stats = [total |-> 0, pending |-> 0, inProgress |-> 0, resolved |-> 0, today |-> 0]
  /\ loadCalls = {[n |-> 0, filter |-> "all", search |-> <<>>]}

\* onChange of the status <select>: setSelectedFilter, and the effect on
\* [selectedFilter, searchQuery] calls loadData with the new values
setSelectedFilter(filter) ==
  /\ filter # selectedFilter
  /\ gestures < MaxFilterChanges
  /\ gestures' = gestures + 1
  /\ selectedFilter' = filter
  /\ loadCalls' = loadCalls \cup {[n |-> gestures + 1, filter |-> filter, search |-> searchQuery]}
  /\ UNCHANGED <<sessionFrame, justSubmitted, complaintSubmittedTime, complaints, now,
                 authVars, dashVars, toasts, searchQuery, dashboardComplaints, stats>>

\* onChange of the search <input>
setSearchQuery(query) ==
  /\ query # searchQuery
  /\ gestures < MaxFilterChanges
  /\ gestures' = gestures + 1
  /\ searchQuery' = query
  /\ loadCalls' = loadCalls \cup {[n |-> gestures + 1, filter |-> selectedFilter, search |-> query]}
  /\ UNCHANGED <<sessionFrame, justSubmitted, complaintSubmittedTime, complaints, now,
                 authVars, dashVars, toasts, selectedFilter, dashboardComplaints, stats>>

\* getAllComplaints of a loadData call settles: setComplaints and setStats,
\* or the toast of the catch block
loadDataDone(call, ok) ==
  /\ call \in loadCalls
  /\ loadCalls' = loadCalls \ {call}
  /\ IF ok
       THEN LET transformedComplaints ==
                  TransformAll(AllComplaints(complaints, LoadFilters(call.filter, call.search)))
            IN  /\ dashboardComplaints' = transformedComplaints
                /\ stats' = DashboardStats(transformedComplaints, now)
                /\ UNCHANGED toasts
       ELSE /\ toasts' = toasts \cup {<<call.n, "load failed">>}
            /\ UNCHANGED <<dashboardComplaints, stats>>
  /\ UNCHANGED <<sessionFrame, justSubmitted, complaintSubmittedTime, complaints, now,
                 authVars, dashVars, gestures, selectedFilter, searchQuery>>

NextAdmin ==
  \/ \E filter \in StatusOptions : setSelectedFilter(filter)
  \/ \E query \in SearchSamples : setSearchQuery(query)
  \/ \E call \in loadCalls : \E ok \in BOOLEAN : loadDataDone(call, ok)

SpecAdmin == InitAdmin /\ [][NextAdmin]_vars

-----------------------------------------------------------------------------
(* The application session: AuthProvider, the routes of App, CitizenDashboard *)

\* the routes of App and the userType their ProtectedRoute requires ("" for none)
PublicPaths == {"/", "/login", "/register"}
ProtectedPaths == {"/citizen", "/citizen/report", "/admin", "/profile"}
RouteUserType(p) ==
  CASE p = "/citizen"        -> "citizen"
    [] p = "/citizen/report" -> "citizen"
    [] p = "/admin"          -> "admin"
    [] p = "/profile"        -> ""

\* variant: any signed-in user passes
ProtectedRoute_AnyUser(userType, u, ld) ==
  IF ld THEN [kind |-> "spinner", to |-> ""]
  ELSE IF u = None THEN [kind |-> "redirect", to |-> "/login"]
  ELSE [kind |-> "children", to |-> ""]

\* what ProtectedRoute renders for the required userType, given user and loading
ProtectedRoute(userType, u, ld) ==
  IF ld THEN [kind |-> "spinner", to |-> ""]
  ELSE IF u = None THEN [kind |-> "redirect", to |-> "/login"]
  ELSE IF userType # "" /\ Val(u).userType # userType
    THEN [kind |-> "redirect",
          to |-> IF Val(u).userType = "admin" THEN "/admin" ELSE "/citizen"]
  ELSE [kind |-> "children", to |-> ""]

\* what the router renders at a path
Rendered(p, u, ld) ==
  IF p \in PublicPaths THEN [kind |-> "children", to |-> ""]
  ELSE ProtectedRoute(RouteUserType(p), u, ld)

\* 24, the hours of `timeDiff <= 24`
FlagWindowHours == 24

MountEffect == [kind |-> "mount"]

\* The state after the first render of App: the mount effect of AuthProvider
\* is due; local storage holds what an earlier session left.
InitSession ==
  /\ route = "app"
  /\ step = 1
  /\ capturedImage = 0
  /\ model = "loading"
  /\ aiPrediction = None
  /\ currentLocation = None
  /\ currentAddress = ""
  /\ geoSupported = FALSE
  /\ gpsRequest = FALSE
  /\ isLoadingLocation = FALSE
  /\ locationLoaded = FALSE
  /\ form = DefaultValues
  /\ errors = {}
  /\ geocodeCalls = {}
  /\ classifyCalls = {}
  /\ submits = {}
  /\ toasts = {}
  /\ justSubmitted = FALSE
  /\ complaints = <<>>
  /\ now = 0
  /\ gestures = 0
  /\ manualCategory = FALSE
  /\ createLog = <<>>
  /\ lastUpdate = None
  /\ lastRead = None
  /\ complaintSubmittedTime = None
  /\ user = None
  /\ loading = TRUE
  /\ savedUser \in {None, Some(CorruptText),
                    Some(Stringify(LoginUser(OldFormatId, <<"asha", "example.in">>, "citizen", 0)))}
  /\ authCalls = {MountEffect}
  /\ path \in {"/register", "/citizen"}
  /\ lastRedirect = None
  /\ mounts = 1
  /\ showProgressBar = FALSE
  /\ clearTimer = FALSE
  /\ dashboardLoad = FALSE
  /\ AdminUnmounted

\* the page is interactive: the mount effect has run
Interactive == MountEffect \notin authCalls

\* the useEffect of AuthProvider: restore the saved user
AuthProviderEffect(newId) ==
  /\ MountEffect \in authCalls
  /\ authCalls' = authCalls \ {MountEffect}
  /\ loading' = FALSE
  /\ IF savedUser = None THEN UNCHANGED <<user, savedUser>>
     ELSE LET parsed == Parse(Val(savedUser))
          IN  IF parsed = None
                THEN /\ savedUser' = None
                     /\ UNCHANGED user
                ELSE LET migrate == Val(parsed).id # "" /\ ~IncludesDash(Val(parsed).id)
                         parsedUser == IF migrate THEN [Val(parsed) EXCEPT !.id = newId]
                                       ELSE Val(parsed)
                     IN  /\ savedUser' = IF migrate THEN Some(Stringify(parsedUser)) ELSE savedUser
                         /\ user' = Some(parsedUser)
  /\ dashboardLoad' = FALSE
  /\ UNCHANGED <<sessionFrame, adminVars, toasts, justSubmitted, complaintSubmittedTime, complaints, now,
                 gestures, path, lastRedirect, mounts, showProgressBar, clearTimer>>

\* login(email, password, userType) up to its await: setLoading(true); the
\* login page is not part of the sources, so the call may come from any page
Login(email, userType) ==
  /\ Interactive /\ gestures < MaxSessionSteps
  /\ gestures' = gestures + 1
  /\ loading' = TRUE
  /\ authCalls' = authCalls \cup {[kind |-> "login", email |-> email, userType |-> userType]}
  /\ dashboardLoad' = FALSE
  /\ UNCHANGED <<sessionFrame, adminVars, toasts, justSubmitted, complaintSubmittedTime, complaints, now,
                 user, savedUser, path, lastRedirect, mounts, showProgressBar, clearTimer>>

\* register(userData) up to its await: setLoading(true)
Register(userData) ==
  /\ Interactive /\ gestures < MaxSessionSteps
  /\ path = "/register"
  /\ gestures' = gestures + 1
  /\ loading' = TRUE
  /\ authCalls' = authCalls \cup {[kind |-> "register", userData |-> userData]}
  /\ dashboardLoad' = FALSE
  /\ UNCHANGED <<sessionFrame, adminVars, toasts, justSubmitted, complaintSubmittedTime, complaints, now,
                 user, savedUser, path, lastRedirect, mounts, showProgressBar, clearTimer>>

\* variant: the user is set in memory only
AuthDone_NotSaved(call, newId) ==
  /\ call \in authCalls /\ call.kind \in {"login", "register"}
  /\ LET mockUser == IF call.kind = "login"
                       THEN LoginUser(newId, call.email, call.userType, now)
                       ELSE RegisterUser(newId, call.userData, now)
     IN  /\ user' = Some(mockUser)
         /\ savedUser' = savedUser
         /\ path' = IF call.kind = "register"
                      THEN (IF mockUser.userType = "admin" THEN "/admin" ELSE "/citizen")
                      ELSE path
  /\ authCalls' = authCalls \ {call}
  /\ loading' = FALSE
  /\ dashboardLoad' = FALSE
  /\ UNCHANGED <<sessionFrame, adminVars, toasts, justSubmitted, complaintSubmittedTime, complaints, now,
                 gestures, lastRedirect, mounts, showProgressBar, clearTimer>>

\* the rest of login / register: setUser(mockUser), setItem, setLoading(false);
\* RegisterPage then navigates to the dashboard of the userType
AuthDone(call, newId) ==
  /\ call \in authCalls /\ call.kind \in {"login", "register"}
  /\ LET mockUser == IF call.kind = "login"
                       THEN LoginUser(newId, call.email, call.userType, now)
                       ELSE RegisterUser(newId, call.userData, now)
     IN  /\ user' = Some(mockUser)
         /\ savedUser' = Some(Stringify(mockUser))
         /\ path' = IF call.kind = "register"
                      THEN (IF mockUser.userType = "admin" THEN "/admin" ELSE "/citizen")
                      ELSE path
  /\ authCalls' = authCalls \ {call}
  /\ loading' = FALSE
  /\ dashboardLoad' = FALSE
  /\ UNCHANGED <<sessionFrame, adminVars, toasts, justSubmitted, complaintSubmittedTime, complaints, now,
                 gestures, lastRedirect, mounts, showProgressBar, clearTimer>>

\* a page behind ProtectedRoute is shown
Shown(p) == path = p /\ Rendered(p, user, loading).kind = "children"

\* logout(), from the profile page, which then navigates to '/'
Logout ==
  /\ Interactive /\ gestures < MaxSessionSteps
  /\ Shown("/profile")
  /\ gestures' = gestures + 1
  /\ user' = None
  /\ savedUser' = None
  /\ path' = "/"
  /\ dashboardLoad' = FALSE
  /\ UNCHANGED <<sessionFrame, adminVars, toasts, justSubmitted, complaintSubmittedTime, complaints, now,
                 loading, authCalls, lastRedirect, mounts, showProgressBar, clearTimer>>

\* updateProfile(updates), from the Save button of the profile page
UpdateProfile(updates) ==
  /\ Interactive /\ gestures < MaxSessionSteps
  /\ Shown("/profile")
  /\ gestures' = gestures + 1
  /\ IF IsSome(user)
       THEN LET updatedUser == Merge(Val(user), updates)
            IN  /\ user' = Some(updatedUser)
                /\ savedUser' = Some(Stringify(updatedUser))
       ELSE UNCHANGED <<user, savedUser>>
  /\ dashboardLoad' = FALSE
  /\ UNCHANGED <<sessionFrame, adminVars, toasts, justSubmitted, complaintSubmittedTime, complaints, now,
                 loading, authCalls, path, lastRedirect, mounts, showProgressBar, clearTimer>>

\* the page is reloaded: App is mounted anew, local storage stays
Reload ==
  /\ gestures < MaxSessionSteps
  /\ gestures' = gestures + 1
  /\ user' = None
  /\ loading' = TRUE
  /\ authCalls' = {MountEffect}
  /\ showProgressBar' = FALSE
  /\ clearTimer' = FALSE
  /\ dashboardLoad' = FALSE
  /\ lastRedirect' = None
  /\ mounts' = mounts + 1
  /\ UNCHANGED <<sessionFrame, adminVars, toasts, justSubmitted, complaintSubmittedTime, complaints, now,
                 savedUser, path>>

\* a link is followed or an address is entered
Navigate(p) ==
  /\ Interactive /\ gestures < MaxSessionSteps
  /\ p # path
  /\ gestures' = gestures + 1
  /\ path' = p
  /\ dashboardLoad' = FALSE
  /\ UNCHANGED <<sessionFrame, adminVars, toasts, justSubmitted, complaintSubmittedTime, complaints, now,
                 user, loading, savedUser, authCalls, lastRedirect, mounts, showProgressBar, clearTimer>>

\* the ProtectedRoute of the current path renders <Navigate to=... replace />
RouteRedirect ==
  /\ path \in ProtectedPaths
  /\ Rendered(path, user, loading).kind = "redirect"
  /\ path' = Rendered(path, user, loading).to
  /\ lastRedirect' = Some([from |-> path, to |-> path'])
  /\ dashboardLoad' = FALSE
  /\ UNCHANGED <<sessionFrame, adminVars, toasts, justSubmitted, complaintSubmittedTime, complaints, now,
                 gestures, user, loading, savedUser, authCalls, mounts, showProgressBar,
                 clearTimer>>

\* onSubmit of the report wizard run to its end: submitComplaint settles, and
\* on success the flag is stored and the wizard navigates to '/citizen'
ReportSubmitted(complaintData, ok) ==
  /\ Interactive /\ gestures < MaxSessionSteps
  /\ Shown("/citizen/report")
  /\ gestures' = gestures + 1
  /\ IF ok /\ NotNullOk(complaintData)
       THEN /\ complaints' = InsertRow(complaints, [complaintData EXCEPT !.user_id = Val(user).id], now)
            /\ toasts' = toasts \cup {<<gestures + 1, "submitted">>}
            /\ justSubmitted' = TRUE
            /\ complaintSubmittedTime' = Some(now)
            /\ path' = "/citizen"
       ELSE /\ toasts' = toasts \cup {<<gestures + 1, "submit failed">>}
            /\ UNCHANGED <<complaints, justSubmitted, complaintSubmittedTime, path>>
  /\ dashboardLoad' = FALSE
  /\ UNCHANGED <<sessionFrame, adminVars, now, user, loading, savedUser, authCalls, lastRedirect, mounts,
                 showProgressBar, clearTimer>>

\* loadComplaints of CitizenDashboard, run by the effect on [user]:
\* Promise.all([getUserComplaints(user.id), getComplaintStats(user.id)]) and,
\* when both succeed, the handling of the stored flag; userComplaintsOk is
\* whether getUserComplaints succeeds
DashboardLoad(userComplaintsOk) ==
  /\ Interactive /\ Shown("/citizen") /\ ~dashboardLoad
  /\ dashboardLoad' = TRUE
  /\ IF Val(user).id = "" THEN UNCHANGED <<toasts, showProgressBar, clearTimer>>
     ELSE IF ~userComplaintsOk \/ ComplaintStats(complaints, Val(user).id).error
       THEN /\ toasts' = toasts \cup {<<0, "load failed">>}
            /\ UNCHANGED <<showProgressBar, clearTimer>>
     ELSE /\ IF justSubmitted /\ IsSome(complaintSubmittedTime)
               THEN /\ showProgressBar' =
                         IF now - Val(complaintSubmittedTime) <= FlagWindowHours
                           THEN TRUE ELSE showProgressBar
                    /\ clearTimer' = TRUE
               ELSE /\ showProgressBar' = FALSE
                    /\ UNCHANGED clearTimer
          /\ UNCHANGED toasts
  /\ UNCHANGED <<sessionFrame, adminVars, justSubmitted, complaintSubmittedTime, complaints, now,
                 gestures, user, loading, savedUser, authCalls, path, lastRedirect, mounts>>

\* the callback of the setTimeout(..., 1000) of loadComplaints.  The timeout is
\* set only by a load that gets past Promise.all, which no load does (see
\* ComplaintStats), so the callback is not among the steps of the session.
ClearFlag ==
  /\ clearTimer
  /\ clearTimer' = FALSE
  /\ justSubmitted' = FALSE
  /\ complaintSubmittedTime' = None
  /\ UNCHANGED <<sessionFrame, adminVars, toasts, complaints, now, gestures, user, loading, savedUser,
                 authCalls, path, lastRedirect, mounts, showProgressBar, dashboardLoad>>

\* twelve hours pass
HalfDay ==
  /\ Interactive /\ ~clearTimer
  /\ now < 12 * MaxHalfDays
  /\ now' = now + 12
  /\ UNCHANGED <<sessionFrame, toasts, justSubmitted, complaintSubmittedTime, complaints,
                 gestures, authVars, dashVars, adminVars>>

NextSession ==
  \/ \E newId \in UUIDs : AuthProviderEffect(newId)
  \/ \E email \in Emails : \E userType \in UserTypes : Login(email, userType)
  \/ \E userData \in RegisterData : Register(userData)
  \/ \E call \in authCalls : \E newId \in UUIDs : AuthDone(call, newId)
  \/ Logout
  \/ \E updates \in (IF IsSome(user) THEN ProfileUpdates(Val(user)) ELSE {}) : UpdateProfile(updates)
  \/ Reload
  \/ \E p \in PublicPaths \cup ProtectedPaths : Navigate(p)
  \/ RouteRedirect
  \/ \E complaintData \in ComplaintSamples : \E ok \in BOOLEAN : ReportSubmitted(complaintData, ok)
  \/ \E userComplaintsOk \in BOOLEAN : DashboardLoad(userComplaintsOk)
  \/ HalfDay

SpecSession == InitSession /\ [][NextSession]_vars

\* the row with the given id
Row(rows, id) == rows[CHOOSE i \in 1..Len(rows) : rows[i].id = id]

-----------------------------------------------------------------------------
(* Properties *)

Done == route = "citizen"

\* C1: a wizard run that has reached Done has caused exactly one successful
\* insert, and the inserted record is pending with no resolved_at.
C1_ExactlyOneInsert ==
  Done => /\ Len(complaints) = 1
          /\ complaints[1].status = "pending"
          /\ complaints[1].resolved_at = None

\* C2: every complaint object onSubmit builds has the department that
\* DEPARTMENT_MAPPING gives for the category submitted.
C2_DepartmentOfCategory ==
  \A i \in 1..Len(createLog) :
    LET d == createLog[i].data
    IN  d.category \in DOMAIN DEPARTMENT_MAPPING
          => d.department = Some(DEPARTMENT_MAPPING[d.category])

\* C3: every stored complaint has resolved_at non-null if and only if its
\* status is 'resolved'.
C3_ResolvedAtIffResolved ==
  \A i \in 1..Len(complaints) :
    IsSome(complaints[i].resolved_at) <=> complaints[i].status = "resolved"

C5_RequiredDetails ==
  /\ \A i \in 1..Len(createLog) :
       createLog[i].data.category # "" /\ createLog[i].data.description # ""
  /\ \A i \in 1..Len(complaints) :
       complaints[i].category # "" /\ complaints[i].description # ""

\* C6: a complaint is created only with a resolved location: a non-empty
\* address and coordinates obtained from geolocation or the map; without any
\* coordinates obtained in the session no complaint is created.
C6_ResolvedLocation ==
  \A i \in 1..Len(complaints) :
    /\ complaints[i].address # ""
    /\ IsSome(currentLocation)
    /\ <<complaints[i].latitude, complaints[i].longitude>> \in Coordinates

\* toFixed(6) of the coordinates of the exploration, written out
Fixed6Table(x) ==
  CASE x = 268467004 -> "26.846700"
    [] x = 809462007 -> "80.946201"
    [] x = 0 - 6     -> "-0.000001"
    [] x = 1234564   -> "0.123456"

AllProvidersFailed(resps) == \A i \in 1..Len(resps) : ProviderFailed(resps[i])

\* C7: when every provider call of a reverseGeocode(lat, lon) fails, the
\* address field and currentAddress become 'GPS Location: <lat>, <lon>' with
\* six decimals each.
C7_GeocodeFallback ==
  [][\A call \in geocodeCalls : \A resps \in GeocodeAnswers :
       (call \notin geocodeCalls' /\ AllProvidersFailed(resps) /\ ReverseGeocodeDone(call, resps))
         => LET expected == "GPS Location: " \o Fixed6Table(call.latitude)
                               \o ", " \o Fixed6Table(call.longitude)
            IN  form'.address = expected /\ currentAddress' = expected]_vars

\* the wizard is Done and the complaint created carries a fallback address
C7_Witness ==
  /\ Done
  /\ \E i \in 1..Len(complaints) :
       complaints[i].address \in {"GPS Location: 26.846700, 80.946201",
                                  "GPS Location: -0.000001, 0.123456"}

LogOf(n) == {i \in 1..Len(createLog) : createLog[i].submit = n}

\* C8: after a failed image upload of a Submit press, submitComplaint is called
\* exactly once for that press, with image_url null and the other fields as
\* entered, a warning is shown, and a successful insert brings the wizard to Done.
C8_UploadFailureNonFatal ==
  /\ \A sub \in submits :
       \* an image was captured, the upload has settled and there is no URL
       (sub.capturedImage # 0 /\ sub.pc = "insert" /\ sub.imageUrl = None)
         => <<sub.n, "upload failed">> \in toasts
  /\ \A t \in toasts :
    t[2] = "upload failed" =>
      /\ Cardinality(LogOf(t[1])) = 1
      /\ \A i \in LogOf(t[1]) :
           /\ createLog[i].data.image_url = None
           /\ createLog[i].data.status = "pending"
           /\ \A sub \in submits :
                sub.n = t[1] =>
                  /\ sub.pc = "insert"
                  /\ createLog[i].data.category = sub.data.category
                  /\ createLog[i].data.description = sub.data.description
                  /\ createLog[i].data.priority = sub.data.priority
                  /\ createLog[i].data.address = sub.data.address
           /\ <<t[1], "submitted">> \in toasts =>
                /\ Done /\ justSubmitted
                /\ \E r \in 1..Len(complaints) :
                     /\ complaints[r].image_url = None
                     /\ complaints[r].category = createLog[i].data.category
                     /\ complaints[r].description = createLog[i].data.description
                     /\ complaints[r].address = createLog[i].data.address

\* an upload failed and the same press reached Done
C8_Witness ==
  \E t \in toasts :
    /\ t[2] = "upload failed"
    /\ <<t[1], "submitted">> \in toasts
    /\ Done

\* the highest class probability of an image
TopProbability(image) ==
  CHOOSE p \in {Prediction(image)[i].probability : i \in 1..Len(AI_CLASSES)} :
    \A i \in 1..Len(AI_CLASSES) : Prediction(image)[i].probability <= p

TopClass(image) ==
  CHOOSE c \in {AI_CLASSES[i] : i \in 1..Len(AI_CLASSES)} :
    \E i \in 1..Len(AI_CLASSES) :
      /\ Prediction(image)[i].className = c
      /\ Prediction(image)[i].probability = TopProbability(image)

\* C9: a completed classification autofills category, department and
\* description if and only if the highest class probability is strictly above
\* 0.6; at 0.6 or below the three fields are unchanged.
C9_StrictThreshold ==
  [][\A call \in classifyCalls :
       ClassifyDone(call) =>
         IF TopProbability(call.image) > 60
           THEN /\ form'.category = TopClass(call.image)
                /\ form'.department = DEPARTMENT_MAPPING[TopClass(call.image)]
                /\ form'.description =
                     ReplaceAddress(DESCRIPTION_TEMPLATES[TopClass(call.image)], TemplateAddress(call))
           ELSE /\ form'.category = form.category
                /\ form'.department = form.department
                /\ form'.description = form.description]_vars

\* a result at exactly 0.6 has arrived and the fields are still blank
C9_Witness ==
  /\ aiPrediction = Some([className |-> "Garbage", probability |-> 60])
  /\ form.category = "" /\ form.department = "" /\ form.description = ""

\* C10: once the user has selected a category by hand, a classification that
\* completes later leaves category, department and description as they are.
C10_ManualCategoryKept ==
  [][\A call \in classifyCalls :
       (manualCategory /\ ClassifyDone(call)) =>
         /\ form'.category = form.category
         /\ form'.department = form.department
         /\ form'.description = form.description]_vars

-----------------------------------------------------------------------------
(* Properties of the repository *)

\* a read of the table has returned
ReadOf(op) == IsSome(lastRead) /\ Val(lastRead).op = op

\* text contains search, letters compared without case
ContainsCI(text, search) ==
  \E off \in 0..(Len(text) - Len(search)) :
    \A i \in 1..Len(search) : Lower(text[off + i]) = Lower(search[i])

\* the complaints a getAllComplaints(filters) call is to return
Wanted(row, filters) ==
  /\ (filters.status # "" /\ filters.status # "all") => row.status = filters.status
  /\ filters.category # "" => row.category = filters.category
  /\ filters.department # "" => row.department = filters.department
  /\ filters.search # <<>> =>
       \/ ContainsCI(Chars(row.description), filters.search)
       \/ ContainsCI(Chars(row.address), filters.search)

\* C11: getAllComplaints(filters) returns exactly the stored complaints that
\* pass every supplied filter and, with a search text, contain that text in
\* description or address (case-insensitively), newest first.
C11_ExactlyTheMatching ==
  ReadOf("getAllComplaints") =>
    LET r == Val(lastRead)
    IN  /\ ~r.error
        /\ {r.data[i].id : i \in 1..Len(r.data)}
             = {complaints[i].id : i \in {j \in 1..Len(complaints) : Wanted(complaints[j], r.filters)}}
        /\ \A i \in 1..Len(r.data) : r.data[i] = Row(complaints, r.data[i].id)
        /\ \A i, j \in 1..Len(r.data) :
             i < j => r.data[i].id # r.data[j].id /\ r.data[i].created_at >= r.data[j].created_at

\* C12: updateComplaintStatus with an id that matches no stored complaint
\* fails with an error, leaves every stored complaint as it was and creates
\* no record.
C12_UnknownIdFails ==
  [][\A complaintId \in 1..(Len(complaints) + 1) : \A updates \in UpdateSamples :
       \A callerType \in UserTypes :
         (complaintId \notin RowIds(complaints)
            /\ updateComplaintStatus(complaintId, updates, callerType))
           => /\ Val(lastUpdate').error
              /\ complaints' = complaints]_vars

\* an update with an unknown id has been made on a table that holds complaints
C12_Witness ==
  /\ IsSome(lastUpdate)
  /\ Val(lastUpdate).complaintId \notin RowIds(Val(lastUpdate).before)
  /\ Val(lastUpdate).updates = [status |-> "resolved"]
  /\ Len(Val(lastUpdate).before) = 2
  /\ Len(complaints) = 2

\* C13: no step changes the id or the user_id of a stored complaint, and ids
\* stay pairwise distinct.
C13_IdAndReporterKept ==
  [][/\ \A i \in 1..Len(complaints) :
          /\ complaints'[i].id = complaints[i].id
          /\ complaints'[i].user_id = complaints[i].user_id
     /\ \A i, j \in 1..Len(complaints') :
          i # j => complaints'[i].id # complaints'[j].id]_vars

\* C14: the status of a complaint never moves backward along pending,
\* in_progress, resolved, and resolved is terminal.
C14_StatusForwardOnly ==
  [][\A i \in 1..Len(complaints) :
       LET old == complaints[i].status
           new == complaints'[i].status
       IN  /\ old = "resolved" => new = "resolved"
           /\ old = "in_progress" => new # "pending"]_vars

\* C15: an updateComplaintStatus call from a session whose userType is not
\* 'admin' is rejected and leaves the table unchanged.
C15_AdminOnly ==
  [][\A complaintId \in 1..(Len(complaints) + 1) : \A updates \in UpdateSamples :
       \A callerType \in UserTypes :
         (callerType # "admin" /\ updateComplaintStatus(complaintId, updates, callerType))
           => /\ Val(lastUpdate').error
              /\ complaints' = complaints]_vars

\* C16: after an updateComplaintStatus that sets the category of an existing
\* complaint, the stored department is the DEPARTMENT_MAPPING image of the
\* stored category.
C16_DepartmentFollowsCategory ==
  (/\ IsSome(lastUpdate)
   /\ Val(lastUpdate).complaintId \in RowIds(Val(lastUpdate).before)
   /\ "category" \in DOMAIN Val(lastUpdate).updates)
    => LET after == Row(complaints, Val(lastUpdate).complaintId)
       IN  after.department = DEPARTMENT_MAPPING[after.category]

\* the stored complaints of the reporter (of all reporters for "")
Of(userId) == {i \in 1..Len(complaints) : userId # "" => complaints[i].user_id = userId}

\* C17: getComplaintStats(userId) returns the counts of the current complaint
\* set: total, pending, inProgress, resolved and byCategory, of that reporter
\* when userId is given and of all reporters otherwise; it changes no stored data.
C17_StatsAreCounts ==
  ReadOf("getComplaintStats") =>
    LET r == Val(lastRead)
    IN  /\ ~r.error
        /\ IsSome(r.data)
        /\ Val(r.data).total = Cardinality(Of(r.userId))
        /\ Val(r.data).pending
             = Cardinality({i \in Of(r.userId) : complaints[i].status = "pending"})
        /\ Val(r.data).inProgress
             = Cardinality({i \in Of(r.userId) : complaints[i].status = "in_progress"})
        /\ Val(r.data).resolved
             = Cardinality({i \in Of(r.userId) : complaints[i].status = "resolved"})
        /\ DOMAIN Val(r.data).byCategory = {complaints[i].category : i \in Of(r.userId)}
        /\ \A k \in DOMAIN Val(r.data).byCategory :
             Val(r.data).byCategory[k]
               = Cardinality({i \in Of(r.userId) : complaints[i].category = k})

-----------------------------------------------------------------------------
(* Properties of the application session *)

\* where a signed-in user of the wrong role, or nobody, is sent
RoleHome(u) ==
  IF u = None THEN "/login"
  ELSE IF Val(u).userType = "admin" THEN "/admin" ELSE "/citizen"

\* C18: ProtectedRoute renders its children exactly when loading is false, a
\* user is present and the required userType is absent or the user's; with no
\* user it redirects to /login, with the wrong role to /admin for an admin and
\* to /citizen otherwise, and for an admin or a citizen that target renders.
C18_ProtectedRouteGate ==
  \A p \in ProtectedPaths :
    LET req == RouteUserType(p)
        r == ProtectedRoute(req, user, loading)
        allowed == ~loading /\ IsSome(user) /\ (req = "" \/ Val(user).userType = req)
    IN  /\ r.kind = "children" <=> allowed
        /\ (~loading /\ ~allowed) =>
             /\ r.kind = "redirect"
             /\ r.to = RoleHome(user)
             /\ (IsSome(user) /\ Val(user).userType \in {"admin", "citizen"}) =>
                  ProtectedRoute(RouteUserType(r.to), user, loading).kind = "children"

\* an admin who went to /citizen has been redirected to /admin, which is shown
C18_Witness ==
  /\ lastRedirect = Some([from |-> "/citizen", to |-> "/admin"])
  /\ Shown("/admin")

\* the stored user record can be restored as it is
Restorable ==
  /\ IsSome(savedUser)
  /\ IsSome(Parse(Val(savedUser)))
  /\ IncludesDash(Val(Parse(Val(savedUser))).id)

\* C19: once loading is false the user in memory is the record stored under
\* 'urbansetu-user' (both absent, or the stored text parses to the user); a
\* mount restores a stored user with a UUID id unchanged, and a logout
\* leaves both absent.
C19_UserMatchesStorage ==
  /\ [](~loading =>
          IF user = None THEN savedUser = None
          ELSE IsSome(savedUser) /\ Parse(Val(savedUser)) = user)
  /\ [][/\ \A newId \in UUIDs :
             (Restorable /\ AuthProviderEffect(newId))
               => /\ user' = Parse(Val(savedUser))
                  /\ savedUser' = savedUser
        /\ Logout => (user' = None /\ savedUser' = None)]_vars

\* a registered user has edited the profile, and a reload has restored the record
C19_Witness ==
  /\ ~loading
  /\ mounts > 1
  /\ IsSome(user)
  /\ "password" \in DOMAIN Val(user)
  /\ "address" \in DOMAIN Val(user)
  /\ Val(user).address = "Hazratganj"
  /\ IsSome(savedUser)
  /\ Parse(Val(savedUser)) = user

\* the age of the stored flag, in hours
FlagAge == now - Val(complaintSubmittedTime)

\* C20: the flag is stored only after a successful submitComplaint; a
\* dashboard load shows the progress bar only for a flag at most 24 hours
\* old; the flag is gone once 24 hours have passed since the submission, and
\* is not removed before.
C20_FlagWindow ==
  /\ [](justSubmitted =>
          /\ IsSome(complaintSubmittedTime)
          /\ Len(complaints) >= 1
          /\ FlagAge <= FlagWindowHours)
  /\ [][/\ (~showProgressBar /\ showProgressBar')
             => (justSubmitted /\ FlagAge <= FlagWindowHours)
        /\ (justSubmitted /\ ~justSubmitted') => FlagAge >= FlagWindowHours]_vars

-----------------------------------------------------------------------------
(* Properties of the wizard: failure, navigation, races *)

\* submitComplaint of the call throws: the network or the service fails, or
\* the table rejects the row
SubmitFails(sub, ok) == ~(ok /\ NotNullOk(ComplaintData(sub)))

\* C21: when submitComplaint fails during onSubmit, no complaint is stored,
\* the just-submitted flag is not written, an error is shown, and the step,
\* the form values, the captured image and the location stay as they are; a
\* press of Submit that passes validation starts a creation from the form
\* values, the image and the location of that moment; and each press of
\* Submit issues at most one create call, none being issued by a failure.
C21_FailureKeepsWizard ==
  /\ [](\A i, j \in 1..Len(createLog) :
          /\ createLog[i].submit <= gestures
          /\ i # j => createLog[i].submit # createLog[j].submit)
  /\ [][/\ \A sub \in submits : \A ok \in BOOLEAN :
             (SubmitFails(sub, ok) /\ InsertDone(sub, ok))
               => /\ complaints' = complaints
                  /\ justSubmitted' = justSubmitted
                  /\ complaintSubmittedTime' = complaintSubmittedTime
                  /\ <<sub.n, "submit failed">> \in toasts'
                  /\ route' = route
                  /\ step' = step
                  /\ form' = form
                  /\ capturedImage' = capturedImage
                  /\ currentLocation' = currentLocation
                  /\ currentAddress' = currentAddress
                  /\ createLog' = createLog
        /\ (PressSubmit /\ ValidationErrors(form, step) = {})
             => \E sub \in submits' :
                  /\ sub.n = gestures'
                  /\ sub.data = form
                  /\ sub.capturedImage = capturedImage
                  /\ sub.currentLocation = currentLocation
                  /\ sub.currentAddress = currentAddress]_vars

\* a press of Submit failed, and a later press created the complaint from
\* the same data
C21_Witness ==
  \E i, j \in 1..Len(createLog) :
    /\ createLog[i].submit < createLog[j].submit
    /\ <<createLog[i].submit, "submit failed">> \in toasts
    /\ <<createLog[j].submit, "submitted">> \in toasts
    /\ [createLog[i].data EXCEPT !.image_url = None] = [createLog[j].data EXCEPT !.image_url = None]
    /\ Done
    /\ Len(complaints) = 1

\* C22: a press of Next Step or Previous leaves category, description,
\* priority, address, latitude, longitude and the captured image as they
\* are, and step always stays within 1..3.
C22_NavigationKeepsData ==
  /\ [](step \in 1..3)
  /\ [][(nextStep \/ prevStep)
          => /\ form' = form
             /\ capturedImage' = capturedImage
             /\ step' \in 1..3]_vars

\* the user is back at step 1 with the description typed at step 2 still in the form
C22_Witness ==
  /\ Mounted /\ step = 1
  /\ capturedImage # 0
  /\ form.description = "pothole near gate"
  /\ form.priority = "urgent"

\* C23: in every state with step = 3, category is one of the five categories
\* and description is non-empty.
C23_DetailsBeforeLocation ==
  (Mounted /\ step = 3)
    => /\ form.category \in {AI_CLASSES[i] : i \in 1..Len(AI_CLASSES)}
       /\ form.description # ""

-----------------------------------------------------------------------------
(* More properties of the repository *)

\* updates that repeat status 'resolved', or carry only notes or an assignment
KeepsResolution(updates) ==
  \/ updates = [status |-> "resolved"]
  \/ DOMAIN updates \subseteq {"admin_notes", "assigned_to"}

\* C24: an updateComplaintStatus call on a complaint that is already resolved,
\* with updates that repeat status 'resolved' or carry only notes or an
\* assignment, leaves resolved_at at the value it had.
C24_ResolvedAtSetOnce ==
  [][\A complaintId \in RowIds(complaints) : \A updates \in UpdateSamples :
       \A callerType \in UserTypes :
         (/\ Row(complaints, complaintId).status = "resolved"
          /\ KeepsResolution(updates)
          /\ updateComplaintStatus(complaintId, updates, callerType))
           => Row(complaints', complaintId).resolved_at
                = Row(complaints, complaintId).resolved_at]_vars

-----------------------------------------------------------------------------
(* Properties of the wizard: classification and location results *)

\* the result for the image now captured has arrived, at or below the
\* threshold, and no classification is in flight
LowResultForCurrentImage ==
  /\ Mounted /\ capturedImage # 0
  /\ classifyCalls = {}
  /\ TopProbability(capturedImage) <= 60
  /\ aiPrediction = Some([className |-> TopClass(capturedImage),
                          probability |-> TopProbability(capturedImage)])

\* C25: after a result at or below 0.6 for the current image, category,
\* department and description are empty unless the user entered them,
\* whatever was captured before in the session.
C25_LowConfidenceLeavesBlank ==
  LowResultForCurrentImage
    => /\ form.category = "" \/ manualCategory
       /\ form.department = ""
       /\ form.description \in TypedDescriptions

\* the autofilled descriptions that still carry the literal '[ADDRESS]'
PlaceholderDescriptions ==
  {DESCRIPTION_TEMPLATES[c][1] \o "[ADDRESS]" \o DESCRIPTION_TEMPLATES[c][2] :
     c \in {AI_CLASSES[i] : i \in 1..Len(AI_CLASSES)}}

\* C26: once an address has been resolved and the classification and
\* geocoding calls have settled, the description does not contain the literal
\* '[ADDRESS]', and no onSubmit that knows a resolved address builds its
\* complaint from a description that contains it.
C26_PlaceholderSubstituted ==
  /\ (Mounted /\ currentAddress # "" /\ classifyCalls = {} /\ geocodeCalls = {})
       => form.description \notin PlaceholderDescriptions
  /\ \A sub \in submits :
       sub.currentAddress # "" => sub.data.description \notin PlaceholderDescriptions

\* C27: when the last of the overlapping reverse-geocoding calls settles (no
\* device position is awaited either), the address it leaves in the form is
\* the result for the latitude and longitude the form holds: the call was
\* made for that position.
C27_AddressOfCurrentPosition ==
  [][\A call \in geocodeCalls : \A resps \in GeocodeAnswers :
       (ReverseGeocodeDone(call, resps) /\ geocodeCalls' = {} /\ ~gpsRequest')
         => /\ form'.address = reverseGeocode(call.latitude, call.longitude, resps)
            /\ form'.latitude = Some(call.latitude)
            /\ form'.longitude = Some(call.longitude)]_vars

\* the classification result of an image, as processImageWithAI stores it
ResultOf(image) == [className |-> TopClass(image), probability |-> TopProbability(image)]

\* C30: the aiPrediction an onSubmit call holds is null or the result computed
\* for the image it submits, and so is the ai_prediction of every complaint
\* it builds.
C30_PredictionOfSubmittedImage ==
  \A sub \in submits :
    /\ sub.aiPrediction = None \/ sub.aiPrediction = Some(ResultOf(sub.capturedImage))
    /\ \A i \in LogOf(sub.n) :
         \/ createLog[i].data.ai_prediction = None
         \/ createLog[i].data.ai_prediction
              = Some([predictedClass |-> TopClass(sub.capturedImage),
                      confidence |-> TopProbability(sub.capturedImage)])

-----------------------------------------------------------------------------
(* Properties of the admin dashboard *)

\* every loadData call has settled, none with an error
LoadsSettled == loadCalls = {} /\ \A t \in toasts : t[2] # "load failed"

\* what getAllComplaints returns for the filter and the search text now selected
CurrentResult == AllComplaints(complaints, LoadFilters(selectedFilter, searchQuery))

\* C28: once every getAllComplaints call of the dashboard has settled, the list
\* and the counters the dashboard holds are those of the query for the
\* current selectedFilter and searchQuery.
C28_ListOfCurrentQuery ==
  LoadsSettled
    => /\ [i \in 1..Len(dashboardComplaints) |-> dashboardComplaints[i].id]
           = [i \in 1..Len(CurrentResult) |-> CurrentResult[i].id]
       /\ stats.total = Len(CurrentResult)
       /\ stats.pending = Cardinality({i \in 1..Len(CurrentResult) : CurrentResult[i].status = "pending"})
       /\ stats.inProgress
            = Cardinality({i \in 1..Len(CurrentResult) : CurrentResult[i].status = "in_progress"})
       /\ stats.resolved
            = Cardinality({i \in 1..Len(CurrentResult) : CurrentResult[i].status = "resolved"})

\* the rows of the admin table
ShownRows == FilteredComplaints(dashboardComplaints, selectedFilter, searchQuery)

\* C29: when the dashboard holds the result of the query for the current
\* filter and search text, every complaint of that result is a row of the
\* admin table, and the counters equal the numbers of rows shown per status.
C29_ResultIsShown ==
  (/\ LoadsSettled
   /\ [i \in 1..Len(dashboardComplaints) |-> dashboardComplaints[i].id]
        = [i \in 1..Len(CurrentResult) |-> CurrentResult[i].id])
    => /\ {ShownRows[i].id : i \in 1..Len(ShownRows)}
            = {CurrentResult[i].id : i \in 1..Len(CurrentResult)}
       /\ stats.total = Len(ShownRows)
       /\ stats.pending = Cardinality({i \in 1..Len(ShownRows) : ShownRows[i].status = "pending"})
       /\ stats.inProgress
            = Cardinality({i \in 1..Len(ShownRows) : ShownRows[i].status = "in_progress"})
       /\ stats.resolved
            = Cardinality({i \in 1..Len(ShownRows) : ShownRows[i].status = "resolved"})

====
